---- MODULE Spec2Model ----
(***************************************************************************)
(* Model of the elicitation app's distribution engine:                     *)
(*   - the sparse distribution model (services/distributionUtils.ts),      *)
(*   - the edit handlers of ScenarioTable, TripleHandleSlider and          *)
(*     DistributionInputs together with App.handleDistributionChange,      *)
(*   - the session codec generateCSV / parseCSV (services/csvUtils.ts).    *)
(*                                                                         *)
(* Numbers are integers (the UI rounds every value it writes).  A nullable *)
(* field `number | null` is the empty sequence (null) or a one-element     *)
(* sequence holding the number.  Text is a sequence of one-character       *)
(* strings, so that joining, splitting, trimming, number formatting and    *)
(* number parsing are computed character by character.                     *)
(***************************************************************************)
EXTENDS Integers, Sequences, FiniteSets, TLC

VARIABLES
    userDist,   \* App state userElicitationData[scenarioId] of the selected scenario
    lastEdit,   \* the handler that ran last, with its arguments
    dist,       \* argument of the pure conversions (a Distribution)
    defs,       \* the defaults the conversions are applied with
    sparse,     \* distributionToUserDistribution(dist, defs), once computed
    realized,   \* userDistributionToDistribution(sparse, defs), once computed
    session,    \* [scenarios, userData]: the arguments of generateCSV
    table,      \* [header, rows]: the columns and cells a text to decode is made of
    csv,        \* the text (or error) produced by generateCSV / handed to parseCSV
    parsed,     \* the result (or error) of parseCSV(csv)
    app,        \* App state: scenarios, userElicitationData, yieldColumn, selectedGroup
    chart       \* the arguments of getBetaPdfPoints and, once computed, its points

vars ==
    <<userDist, lastEdit, dist, defs, sparse, realized, session, table, csv, parsed, app,
      chart>>

editVars == <<userDist, lastEdit>>
pureVars == <<dist, defs, sparse, realized, chart>>
codecVars == <<session, table, csv, parsed, app>>

-----------------------------------------------------------------------------
(* Generic helpers                                                         *)

Null == <<>>
Some(v) == <<v>>

\* JavaScript `x ?? d` on a nullable number
Coalesce(x, d) == IF x = Null THEN d ELSE x[1]

MathMin(a, b) == IF a < b THEN a ELSE b
MathMax(a, b) == IF a > b THEN a ELSE b

\* A JavaScript number is held in fixed point: the integer k stands for k / Den.
Den == 2

\* the whole number n
N(n) == n * Den

\* Number.isInteger
IsInteger(x) == x % Den = 0

\* Math.round: the nearest whole number, a half rounded up
MathRound(x) == ((2 * x + Den) \div (2 * Den)) * Den

None == "none"

-----------------------------------------------------------------------------
(* services/distributionUtils.ts                                           *)

DEFAULT_BASELINE == [min |-> N(0), max |-> N(30), mode |-> N(15), confidence |-> N(100)]
DEFAULT_TREATMENT == [min |-> N(0), max |-> N(20), mode |-> N(10), confidence |-> N(100)]
DEFAULT_SLIDER_RANGE == [min |-> N(0), max |-> N(40)]

Defaults(type) == IF type = "baseline" THEN DEFAULT_BASELINE ELSE DEFAULT_TREATMENT

userDistributionToDistribution_OrOr(userDist_, defaults) ==
    \* `||` in place of `??`: a field set to 0 falls back to the default
    LET Or(x, d) == IF x = Null \/ x = Some(0) THEN d ELSE x[1]
    IN  [min |-> Or(userDist_.min, defaults.min),
         max |-> Or(userDist_.max, defaults.max),
         mode |-> Or(userDist_.mode, defaults.mode),
         confidence |-> Or(userDist_.confidence, defaults.confidence)]

userDistributionToDistribution(userDist_, defaults) ==
    [min |-> Coalesce(userDist_.min, defaults.min),
     max |-> Coalesce(userDist_.max, defaults.max),
     mode |-> Coalesce(userDist_.mode, defaults.mode),
     confidence |-> Coalesce(userDist_.confidence, defaults.confidence)]

distributionToUserDistribution(d, defaults) ==
    [min |-> IF d.min = defaults.min THEN Null ELSE Some(d.min),
     max |-> IF d.max = defaults.max THEN Null ELSE Some(d.max),
     mode |-> IF d.mode = defaults.mode THEN Null ELSE Some(d.mode),
     confidence |-> IF d.confidence = defaults.confidence THEN Null ELSE Some(d.confidence)]

getEmptyUserScenario ==
    [baseline |-> [min |-> Null, max |-> Null, mode |-> Null, confidence |-> Null],
     treatment |-> [min |-> Null, max |-> Null, mode |-> Null, confidence |-> Null]]

\* hasUserEdits with a test of truthiness: a field set to 0 counts as unset
hasUserEdits_Truthy(userDist_) ==
    \E f \in {"min", "max", "mode", "confidence"} :
        userDist_[f] # Null /\ userDist_[f] # Some(0)

\* hasUserEdits
hasUserEdits(userDist_) ==
    \/ userDist_.min # Null
    \/ userDist_.max # Null
    \/ userDist_.mode # Null
    \/ userDist_.confidence # Null

\* hasScenarioUserEdits
hasScenarioUserEdits(userScenarioDist) ==
    hasUserEdits(userScenarioDist.baseline) \/ hasUserEdits(userScenarioDist.treatment)

\* realize() of the spec, applied to one side of a scenario's sparse record
Realize(u, type) == userDistributionToDistribution(u[type], Defaults(type))

-----------------------------------------------------------------------------
(* Bounds and input sets                                                   *)

\* slider positions offered to a drag: every SliderStep-th whole number of the range
\* (percentToValue rounds the position to a whole number)
SliderStep == 10

SliderValues ==
    {v \in DEFAULT_SLIDER_RANGE.min .. DEFAULT_SLIDER_RANGE.max : v % N(SliderStep) = 0}

Handles == {"min", "mode", "max"}
Types == {"baseline", "treatment"}

\* values of the confidence range input of ScenarioTable (min="50" max="100")
ConfidenceSliderValues == {N(50), N(100)}

-----------------------------------------------------------------------------
(* App.handleDistributionChange: functional update of one side             *)

AppHandleDistributionChange(prev, type, newDistribution) ==
    [prev EXCEPT ![type] = newDistribution]

-----------------------------------------------------------------------------
(* components/TripleHandleSlider.tsx                                       *)

\* the min handle limited by max instead of mode: it can pass the mode handle
handleMove_MinUpToMax(min, mode, max, minBound, maxBound, dragging, newValue) ==
    [min |-> IF dragging = "min" THEN MathMax(minBound, MathMin(newValue, max)) ELSE min,
     mode |-> IF dragging = "mode" THEN MathMax(min, MathMin(newValue, max)) ELSE mode,
     max |-> IF dragging = "max" THEN MathMin(maxBound, MathMax(newValue, mode)) ELSE max]

\* handleMove: the triple handed to onChange when `dragging` is moved to newValue
handleMove(min, mode, max, minBound, maxBound, dragging, newValue) ==
    [min |-> IF dragging = "min" THEN MathMax(minBound, MathMin(newValue, mode)) ELSE min,
     mode |-> IF dragging = "mode" THEN MathMax(min, MathMin(newValue, max)) ELSE mode,
     max |-> IF dragging = "max" THEN MathMin(maxBound, MathMax(newValue, mode)) ELSE max]

\* handleMove calls onChange only when a value changed
handleMoveFires(min, mode, max, values) ==
    values.min # min \/ values.mode # mode \/ values.max # max

-----------------------------------------------------------------------------
(* components/ScenarioTable.tsx                                            *)

\* the confidence stored as a number even when it equals the default
handleTripleSliderChange_ConfidencePinned(currentUserDist, type, values) ==
    LET defaults == Defaults(type)
    IN  [min |-> IF values.min = defaults.min THEN Null ELSE Some(values.min),
         max |-> IF values.max = defaults.max THEN Null ELSE Some(values.max),
         mode |-> IF values.mode = defaults.mode THEN Null ELSE Some(values.mode),
         confidence |-> Some(Coalesce(currentUserDist[type].confidence,
                                      defaults.confidence))]

\* handleTripleSliderChange: the UserDistribution passed to onDistributionChange
handleTripleSliderChange(currentUserDist, type, values) ==
    LET defaults == Defaults(type)
        currentConfidence == Coalesce(currentUserDist[type].confidence, defaults.confidence)
    IN  [min |-> IF values.min = defaults.min THEN Null ELSE Some(values.min),
         max |-> IF values.max = defaults.max THEN Null ELSE Some(values.max),
         mode |-> IF values.mode = defaults.mode THEN Null ELSE Some(values.mode),
         confidence |-> IF currentConfidence = defaults.confidence
                        THEN Null ELSE Some(currentConfidence)]


\* getMaxConstraint inside handleDistributionChange: a treatment field other than
\* confidence is capped by the current realized baseline value of that field
TableMaxConstraint(currentUserDist, type, field) ==
    IF type = "treatment" /\ field # "confidence"
    THEN MathMin(N(100), Coalesce(currentUserDist.baseline[field], DEFAULT_BASELINE[field]))
    ELSE N(100)

\* a max edit that leaves the mode where it was (other fields not edited)
handleDistributionChange_ModeKept(currentUserDist, type, field, value) ==
    IF field = "max"
    THEN [currentUserDist[type] EXCEPT
              !.max = Some(MathRound(MathMin(TableMaxConstraint(currentUserDist, type, "max"),
                                             MathMax(value, 0))))]
    ELSE currentUserDist[type]

\* handleDistributionChange: the UserDistribution passed to onDistributionChange
handleDistributionChange(currentUserDist, type, field, value) ==
    LET currentData == currentUserDist[type]
        defaults == Defaults(type)
        currentMin == Coalesce(currentData.min, defaults.min)
        currentMax == Coalesce(currentData.max, defaults.max)
        currentMode == Coalesce(currentData.mode, defaults.mode)
        currentConfidence == Coalesce(currentData.confidence, defaults.confidence)
        getMaxConstraint(f) == TableMaxConstraint(currentUserDist, type, f)
        newMin == MathRound(MathMax(0, MathMin(value, getMaxConstraint("min"))))
        newMax == MathRound(MathMin(getMaxConstraint("max"), MathMax(value, 0)))
        min == IF field = "min" THEN newMin ELSE currentMin
        max == IF field = "max" THEN newMax ELSE currentMax
        mode == CASE field = "min" ->
                        IF newMin > currentMode
                        THEN MathMin(newMin, getMaxConstraint("mode")) ELSE currentMode
                  [] field = "max" ->
                        IF newMax < currentMode THEN newMax ELSE currentMode
                  [] field = "mode" ->
                        MathRound(MathMax(currentMin,
                            MathMin(value, MathMin(currentMax, getMaxConstraint("mode")))))
                  [] OTHER -> currentMode
        confidence == IF field = "confidence"
                      THEN MathRound(MathMax(N(1), MathMin(value, N(100))))
                      ELSE currentConfidence
    IN  [min |-> IF min = defaults.min THEN Null ELSE Some(min),
         max |-> IF max = defaults.max THEN Null ELSE Some(max),
         mode |-> IF mode = defaults.mode THEN Null ELSE Some(mode),
         confidence |-> IF confidence = defaults.confidence THEN Null ELSE Some(confidence)]

\* the cascade of the baseline slider's onChange omitted: only the baseline is written
BaselineSliderOnChange_NoCascade(u, values) ==
    AppHandleDistributionChange(u, "baseline",
        handleTripleSliderChange(u, "baseline", values))

\* the second update built on the state of the render instead of on the state the
\* first update left (setState with a value in place of an updater function): the
\* cascade overwrites the baseline just written
BaselineSliderOnChange_LostUpdate(u, values) ==
    LET treatmentMin == Coalesce(u.treatment.min, DEFAULT_TREATMENT.min)
        treatmentMode == Coalesce(u.treatment.mode, DEFAULT_TREATMENT.mode)
        treatmentMax == Coalesce(u.treatment.max, DEFAULT_TREATMENT.max)
        first == AppHandleDistributionChange(u, "baseline",
                     handleTripleSliderChange(u, "baseline", values))
    IN  IF treatmentMin > values.min \/ treatmentMode > values.mode
           \/ treatmentMax > values.max
        THEN AppHandleDistributionChange(u, "treatment",
                 handleTripleSliderChange(u, "treatment",
                     [min |-> MathMin(treatmentMin, values.min),
                      mode |-> MathMin(treatmentMode, values.mode),
                      max |-> MathMin(treatmentMax, values.max)]))
        ELSE first

\* onChange of the baseline TripleHandleSlider: write the baseline, then pull every
\* treatment value that exceeds it down to it.  Both handleTripleSliderChange calls
\* read the props of the same render (u); App applies the two updates in order.
BaselineSliderOnChange(u, values) ==
    LET treatmentMin == Coalesce(u.treatment.min, DEFAULT_TREATMENT.min)
        treatmentMode == Coalesce(u.treatment.mode, DEFAULT_TREATMENT.mode)
        treatmentMax == Coalesce(u.treatment.max, DEFAULT_TREATMENT.max)
        first == AppHandleDistributionChange(u, "baseline",
                     handleTripleSliderChange(u, "baseline", values))
    IN  IF treatmentMin > values.min \/ treatmentMode > values.mode
           \/ treatmentMax > values.max
        THEN AppHandleDistributionChange(first, "treatment",
                 handleTripleSliderChange(u, "treatment",
                     [min |-> MathMin(treatmentMin, values.min),
                      mode |-> MathMin(treatmentMode, values.mode),
                      max |-> MathMin(treatmentMax, values.max)]))
        ELSE first

\* the clamp of the treatment slider's onChange omitted
TreatmentSliderOnChange_NoClamp(u, values) ==
    AppHandleDistributionChange(u, "treatment",
        handleTripleSliderChange(u, "treatment", values))

\* onChange of the treatment TripleHandleSlider: clamp to the realized baseline
TreatmentSliderOnChange(u, values) ==
    LET baselineMin == Coalesce(u.baseline.min, DEFAULT_BASELINE.min)
        baselineMode == Coalesce(u.baseline.mode, DEFAULT_BASELINE.mode)
        baselineMax == Coalesce(u.baseline.max, DEFAULT_BASELINE.max)
        constrainedValues == [min |-> MathMin(values.min, baselineMin),
                              mode |-> MathMin(values.mode, baselineMode),
                              max |-> MathMin(values.max, baselineMax)]
    IN  AppHandleDistributionChange(u, "treatment",
            handleTripleSliderChange(u, "treatment", constrainedValues))

-----------------------------------------------------------------------------
(* components/DistributionInputs.tsx                                       *)

\* maxConstraints prop of the two InputRows: none for Baseline, the constant
\* DEFAULT_BASELINE for Treatment
InputRowMaxConstraints(type) ==
    IF type = "treatment" THEN Some(DEFAULT_BASELINE) ELSE Null

\* a confidence edit rounded but not clamped to [1, 100] (other fields not edited)
handleValueChange_NoConfidenceClamp(data, defaults, maxConstraints, field, value) ==
    IF field = "confidence"
    THEN [data EXCEPT !.confidence = IF MathRound(value) = defaults.confidence
                                     THEN Null ELSE Some(MathRound(value))]
    ELSE data

\* InputRow.handleValueChange: the UserDistribution passed to onChange
handleValueChange(data, defaults, maxConstraints, field, value) ==
    LET currentMin == Coalesce(data.min, defaults.min)
        currentMax == Coalesce(data.max, defaults.max)
        currentMode == Coalesce(data.mode, defaults.mode)
        currentConfidence == Coalesce(data.confidence, defaults.confidence)
        getMaxConstraint(f) ==
            IF maxConstraints # Null /\ f # "confidence"
            THEN MathMin(N(100), maxConstraints[1][f]) ELSE N(100)
        newMin == MathRound(MathMax(0, MathMin(value, getMaxConstraint("min"))))
        newMax == MathRound(MathMin(getMaxConstraint("max"), MathMax(value, 0)))
        min == IF field = "min" THEN newMin ELSE currentMin
        max == IF field = "max" THEN newMax ELSE currentMax
        mode == CASE field = "min" ->
                        IF newMin > currentMode
                        THEN MathMin(newMin, getMaxConstraint("mode")) ELSE currentMode
                  [] field = "max" ->
                        IF newMax < currentMode THEN newMax ELSE currentMode
                  [] field = "mode" ->
                        MathRound(MathMax(currentMin,
                            MathMin(value, MathMin(currentMax, getMaxConstraint("mode")))))
                  [] OTHER -> currentMode
        confidence == IF field = "confidence"
                      THEN MathRound(MathMax(N(1), MathMin(value, N(100))))
                      ELSE currentConfidence
    IN  [min |-> IF min = defaults.min THEN Null ELSE Some(min),
         max |-> IF max = defaults.max THEN Null ELSE Some(max),
         mode |-> IF mode = defaults.mode THEN Null ELSE Some(mode),
         confidence |-> IF confidence = defaults.confidence THEN Null ELSE Some(confidence)]

-----------------------------------------------------------------------------
(* Edit operations on the selected scenario                                *)

Fields == {"min", "max", "mode", "confidence"}

\* values typed into a numeric input or handed to a per-field edit (parseInt gives
\* whole numbers): every EditStep-th from one step below 0 to one step above 100
EditStep == 60

EditValues == {v \in N(0 - EditStep) .. N(100 + EditStep) : v % N(EditStep) = 0}

\* confidence values handed to a per-field edit: one below and one above [1, 100]
ConfidenceEditValues == {N(0 - EditStep), N(100 + EditStep)}

ValuesFor(field) == IF field = "confidence" THEN ConfidenceEditValues ELSE EditValues

\* the variables of the parts a specification does not exercise stay at None
PureIdle ==
    dist = None /\ defs = None /\ sparse = None /\ realized = None /\ chart = None
CodecIdle ==
    session = None /\ table = None /\ csv = None /\ parsed = None /\ app = None
EditIdle == userDist = None /\ lastEdit = None

InitEdit ==
    /\ userDist = getEmptyUserScenario
    /\ lastEdit = [op |-> None]
    /\ PureIdle
    /\ CodecIdle

\* a drag of one handle of the baseline slider of the selected row
BaselineSliderDrag ==
    \E dragging \in Handles, newValue \in SliderValues :
        LET b == Realize(userDist, "baseline")
            values == handleMove(b.min, b.mode, b.max, DEFAULT_SLIDER_RANGE.min,
                                 DEFAULT_SLIDER_RANGE.max, dragging, newValue)
        IN  /\ handleMoveFires(b.min, b.mode, b.max, values)
            /\ userDist' = BaselineSliderOnChange(userDist, values)
            /\ lastEdit' = [op |-> "baselineSlider", dragging |-> dragging,
                            clamped |-> FALSE]
            /\ UNCHANGED <<pureVars, codecVars>>

\* a drag of one handle of the treatment slider of the selected row
TreatmentSliderDrag ==
    \E dragging \in Handles, newValue \in SliderValues :
        LET t == Realize(userDist, "treatment")
            values == handleMove(t.min, t.mode, t.max, DEFAULT_SLIDER_RANGE.min,
                                 DEFAULT_SLIDER_RANGE.max, dragging, newValue)
        IN  /\ handleMoveFires(t.min, t.mode, t.max, values)
            /\ userDist' = TreatmentSliderOnChange(userDist, values)
            /\ lastEdit' = [op |-> "treatmentSlider", dragging |-> dragging,
                            clamped |-> \E f \in Handles :
                                values[f] > Realize(userDist', "treatment")[f]]
            /\ UNCHANGED <<pureVars, codecVars>>

\* the confidence range inputs of ScenarioTable
ConfidenceEdit ==
    \E type \in Types, value \in ConfidenceSliderValues :
        /\ userDist' = AppHandleDistributionChange(userDist, type,
                           handleDistributionChange(userDist, type, "confidence", value))
        /\ lastEdit' = [op |-> "confidence", type |-> type]
        /\ UNCHANGED <<pureVars, codecVars>>

NextSlider == BaselineSliderDrag \/ TreatmentSliderDrag \/ ConfidenceEdit

SpecSlider == InitEdit /\ [][NextSlider]_vars

\* a per-field edit handled by ScenarioTable.handleDistributionChange
TableFieldEdit ==
    \E type \in Types, field \in Fields : \E value \in ValuesFor(field) :
        /\ userDist' = AppHandleDistributionChange(userDist, type,
                           handleDistributionChange(userDist, type, field, value))
        /\ lastEdit' = [op |-> "tableField", type |-> type, field |-> field]
        /\ UNCHANGED <<pureVars, codecVars>>

\* a per-field edit handled by an InputRow of DistributionInputs
InputsFieldEdit ==
    \E type \in Types, field \in Fields : \E value \in ValuesFor(field) :
        /\ userDist' = AppHandleDistributionChange(userDist, type,
                           handleValueChange(userDist[type], Defaults(type),
                               InputRowMaxConstraints(type), field, value))
        /\ lastEdit' = [op |-> "inputsField", type |-> type, field |-> field]
        /\ UNCHANGED <<pureVars, codecVars>>

NextField == TableFieldEdit \/ InputsFieldEdit

SpecField == InitEdit /\ [][NextField]_vars

-----------------------------------------------------------------------------
(* Constraint properties of the edit operations                            *)

Dominates(u) ==
    \A f \in Handles : Realize(u, "treatment")[f] <= Realize(u, "baseline")[f]

Ordered(d) == d.min <= d.mode /\ d.mode <= d.max

\* C1: on the slider path (baseline and treatment slider drags, confidence edits)
\* from an all-unset scenario, every realized treatment min/mode/max is at most the
\* realized baseline value of the same field.
C1_SliderDominance == Dominates(userDist)

\* a baseline drag that pulled a treatment value below its default (the cascade ran)
C1_Witness ==
    /\ lastEdit.op = "baselineSlider"
    /\ \E f \in Handles :
          /\ Realize(userDist, "treatment")[f] = Realize(userDist, "baseline")[f]
          /\ Realize(userDist, "treatment")[f] < DEFAULT_TREATMENT[f]

\* C2: on the slider path from an all-unset scenario, realized min <= mode <= max
\* holds within baseline and within treatment.
C2_SliderOrdering ==
    Ordered(Realize(userDist, "baseline")) /\ Ordered(Realize(userDist, "treatment"))

\* a treatment drag whose value was clamped to the baseline, after the baseline moved
C2_Witness ==
    /\ lastEdit.op = "treatmentSlider"
    /\ lastEdit.clamped
    /\ \E f \in Handles :
          /\ Realize(userDist, "treatment")[f] = Realize(userDist, "baseline")[f]
          /\ Realize(userDist, "baseline")[f] # DEFAULT_BASELINE[f]

\* C3: on the per-field edit path from an all-unset scenario, every realized
\* treatment min/mode/max is at most the realized baseline value of the same field.
C3_FieldDominance == Dominates(userDist)

\* C4: on the per-field edit path from an all-unset scenario, realized
\* min <= mode <= max holds within baseline and within treatment.
C4_FieldOrdering ==
    Ordered(Realize(userDist, "baseline")) /\ Ordered(Realize(userDist, "treatment"))

-----------------------------------------------------------------------------
(* Round trip of the sparse model                                          *)

\* whole field values tried by the round trip: -PureSpan .. PureSpan and every
\* value of the two default constants
PureSpan == 1

DefaultValues ==
    {DEFAULT_BASELINE[f] : f \in Fields} \cup {DEFAULT_TREATMENT[f] : f \in Fields}

PureValues == {N(v) : v \in (0 - PureSpan) .. PureSpan} \cup DefaultValues

\* a result not computed yet is the empty sequence, a computed one <<result>>
Pending == <<>>

InitPure ==
    /\ dist \in [min : PureValues, max : PureValues, mode : PureValues,
                 confidence : PureValues]
    /\ defs \in {DEFAULT_BASELINE, DEFAULT_TREATMENT}
    /\ sparse = Pending
    /\ realized = Pending
    /\ chart = None
    /\ EditIdle
    /\ CodecIdle

\* reduce: distributionToUserDistribution(dist, defs)
Reduce ==
    /\ sparse = Pending
    /\ sparse' = <<distributionToUserDistribution(dist, defs)>>
    /\ UNCHANGED <<dist, defs, realized, chart, editVars, codecVars>>

\* realize: userDistributionToDistribution(sparse, defs)
RealizeSparse ==
    /\ sparse # Pending
    /\ realized = Pending
    /\ realized' = <<userDistributionToDistribution(sparse[1], defs)>>
    /\ UNCHANGED <<dist, defs, sparse, chart, editVars, codecVars>>

NextPure == Reduce \/ RealizeSparse

SpecPure == InitPure /\ [][NextPure]_vars

\* C5: for every Distribution d with integer fields and both default constants,
\* userDistributionToDistribution(distributionToUserDistribution(d, defs), defs)
\* equals d field by field.
C5_RoundTrip ==
    realized # Pending => \A f \in Fields : realized[1][f] = dist[f]

\* a round trip through a sparse record with an unset field and a field set to 0
C5_Witness ==
    /\ realized # Pending
    /\ \E f \in Fields : sparse[1][f] = Null
    /\ \E f \in Fields : sparse[1][f] = Some(0)

-----------------------------------------------------------------------------
(* Text                                                                    *)
(* A string is a sequence of characters.  A character is a one-character   *)
(* string, except that a run of letters which is only ever handled as a    *)
(* whole (a column name, an id such as s1) is written as one element: no   *)
(* operation of the codec looks inside such a run.                         *)

LF == "LF"                \* line feed
CR == "CR"                \* carriage return
Space == " "
Comma == ","
Minus == "-"
Dot == "."
Backslash == "BACKSLASH"
LetterN == "n"

Digits == <<"0", "1", "2", "3", "4", "5", "6", "7", "8", "9">>

IsDigit(c) == \E i \in 1 .. 10 : Digits[i] = c
DigitValue(c) == (CHOOSE i \in 1 .. 10 : Digits[i] = c) - 1

\* the characters String.prototype.trim removes and parseFloat skips
IsWhiteSpace(c) == c \in {Space, LF, CR}

RECURSIVE JoinWith(_, _)
\* Array.prototype.join(sep) on an array of strings
JoinWith(cells, sep) ==
    IF cells = <<>> THEN <<>>
    ELSE IF Len(cells) = 1 THEN cells[1]
    ELSE cells[1] \o <<sep>> \o JoinWith(Tail(cells), sep)

RECURSIVE SplitOn(_, _)
\* String.prototype.split(sep) for a one-character separator
SplitOn(text, sep) ==
    IF \A i \in 1 .. Len(text) : text[i] # sep THEN <<text>>
    ELSE LET k == CHOOSE i \in 1 .. Len(text) :
                      text[i] = sep /\ \A j \in 1 .. (i - 1) : text[j] # sep
         IN  <<SubSeq(text, 1, k - 1)>> \o SplitOn(SubSeq(text, k + 1, Len(text)), sep)

\* String.prototype.trim
Trim(text) ==
    IF \A i \in 1 .. Len(text) : IsWhiteSpace(text[i]) THEN <<>>
    ELSE LET first == CHOOSE i \in 1 .. Len(text) :
                          ~IsWhiteSpace(text[i])
                          /\ \A j \in 1 .. (i - 1) : IsWhiteSpace(text[j])
             last == CHOOSE i \in 1 .. Len(text) :
                         ~IsWhiteSpace(text[i])
                         /\ \A j \in (i + 1) .. Len(text) : IsWhiteSpace(text[j])
         IN  SubSeq(text, first, last)

\* Array.prototype.map(v => v.trim())
TrimAll(seq) == [i \in 1 .. Len(seq) |-> Trim(seq[i])]

RECURSIVE NatToString(_)
NatToString(n) ==
    IF n < 10 THEN <<Digits[n + 1]>>
    ELSE NatToString(n \div 10) \o <<Digits[(n % 10) + 1]>>

RECURSIVE FractionToString(_)
\* the decimal digits of the fraction r / Den, 0 < r < Den (Den has a finite
\* decimal expansion)
FractionToString(r) ==
    <<Digits[((10 * r) \div Den) + 1]>>
    \o (IF (10 * r) % Den = 0 THEN <<>> ELSE FractionToString((10 * r) % Den))

\* String(x) for a number x, as Array.prototype.join applies it: the sign, the
\* whole part and, for a number that is not whole, a point and the fraction digits
NumberToString(x) ==
    LET magnitude == IF x < 0 THEN 0 - x ELSE x
    IN  (IF x < 0 THEN <<Minus>> ELSE <<>>)
        \o NatToString(magnitude \div Den)
        \o (IF magnitude % Den = 0 THEN <<>>
            ELSE <<Dot>> \o FractionToString(magnitude % Den))

\* NaN in a nullable numeric field: distinguished from <<n>> by its length
NaN == <<"NaN", "NaN">>

RECURSIVE DigitsValue(_, _)
\* the value of the longest run of digits at the start of text, after acc
DigitsValue(text, acc) ==
    IF text = <<>> \/ ~IsDigit(text[1]) THEN acc
    ELSE DigitsValue(Tail(text), acc * 10 + DigitValue(text[1]))

RECURSIVE SkipDigits(_)
SkipDigits(text) ==
    IF text = <<>> \/ ~IsDigit(text[1]) THEN text ELSE SkipDigits(Tail(text))

RECURSIVE Power10(_)
Power10(n) == IF n = 0 THEN 1 ELSE 10 * Power10(n - 1)

\* the number written by the digits at the start of text and, when a point and
\* digits follow them, by that fraction too (the fractions of the texts decoded
\* here are multiples of 1 / Den)
DecimalValue(text) ==
    LET rest == SkipDigits(text)
        fraction == IF rest # <<>> /\ rest[1] = Dot THEN Tail(rest) ELSE <<>>
        places == Len(fraction) - Len(SkipDigits(fraction))
    IN  N(DigitsValue(text, 0))
        + (DigitsValue(fraction, 0) * Den) \div Power10(places)

RECURSIVE SkipWhiteSpace(_)
SkipWhiteSpace(text) ==
    IF text # <<>> /\ IsWhiteSpace(text[1]) THEN SkipWhiteSpace(Tail(text)) ELSE text

\* parseFloat(text) as a nullable-field value: <<n>>, or NaN when no number starts
\* the text (leading white space skipped, an optional sign, digits, an optional
\* point and digits; whatever follows is ignored)
parseFloat(text) ==
    LET t == SkipWhiteSpace(text)
        negative == t # <<>> /\ t[1] = Minus
        body == IF negative THEN Tail(t) ELSE t
    IN  IF body = <<>> \/ ~IsDigit(body[1]) THEN NaN
        ELSE Some(IF negative THEN 0 - DecimalValue(body) ELSE DecimalValue(body))

\* isNaN(Number(text)) is false: the whole text is an optional sign, digits and
\* an optional point followed by digits
IsNumeric(text) ==
    LET negative == text # <<>> /\ text[1] = Minus
        body == IF negative THEN Tail(text) ELSE text
        rest == SkipDigits(body)
    IN  /\ body # <<>>
        /\ IsDigit(body[1])
        /\ \/ rest = <<>>
           \/ /\ rest[1] = Dot
              /\ SkipDigits(Tail(rest)) = <<>>

-----------------------------------------------------------------------------
(* services/csvUtils.ts: values                                            *)
(* A Scenario is [id, scenario_group, comment, attrs]: comment is Null     *)
(* (undefined) or <<text>>, attrs the other own keys in insertion order,   *)
(* each [key |-> text, value |-> JsString(text) or JsNumber(n)].           *)
(* userData is a function from ids to sparse scenario distributions.       *)

JsString(text) == [t |-> "string", s |-> text]
JsNumber(n) == [t |-> "number", n |-> n]

\* String(value), as Array.prototype.join applies it to a cell
CellString(value) == IF value.t = "number" THEN NumberToString(value.n) ELSE value.s

COMMENT_HEADER == <<"comment">>

DIST_HEADERS ==
    << <<"baseline_min">>, <<"baseline_max">>, <<"baseline_mode">>,
       <<"baseline_confidence">>, <<"treatment_min">>, <<"treatment_max">>,
       <<"treatment_mode">>, <<"treatment_confidence">> >>

RESERVED_HEADERS ==
    << <<"scenario_id">>, <<"scenario_group">>, COMMENT_HEADER >> \o DIST_HEADERS

Includes(seq, x) == \E i \in 1 .. Len(seq) : seq[i] = x

\* code units in ascending order; a run of letters written as one element ranks
\* where the string it stands for sorts among the others
CodeOrder ==
    <<LF, CR, Space, Comma, Minus, Dot,
      "0", "1", "2", "3", "4", "5", "6", "7", "8", "9",
      "A", "B", "Unknown", "Yield", Backslash,
      "area", "baseline_confidence", "baseline_max", "baseline_min", "baseline_mode",
      "comment", "loc", LetterN, "north", "note", "s1", "s2", "s3",
      "scenario_group", "scenario_id", "south",
      "treatment_confidence", "treatment_max", "treatment_min", "treatment_mode",
      "yield">>

CharCode(c) == CHOOSE i \in 1 .. Len(CodeOrder) : CodeOrder[i] = c

RECURSIVE TextLess(_, _)
\* a < b as JavaScript compares strings (by code unit, a proper prefix first)
TextLess(a, b) ==
    IF b = <<>> THEN FALSE
    ELSE IF a = <<>> THEN TRUE
    ELSE IF a[1] = b[1] THEN TextLess(Tail(a), Tail(b))
    ELSE CharCode(a[1]) < CharCode(b[1])

RECURSIVE SortTexts(_)
\* Array.from(set).sort(): the strings of a set in ascending order
SortTexts(S) ==
    IF S = {} THEN <<>>
    ELSE LET least == CHOOSE x \in S : \A y \in S \ {x} : TextLess(x, y)
         IN  <<least>> \o SortTexts(S \ {least})

\* String.prototype.replace(/,/g, '')
RemoveCommas(text) == SelectSeq(text, LAMBDA c : c # Comma)

RECURSIVE EscapeLineBreaks(_)
\* String.prototype.replace(/\r?\n/g, '\\n')
EscapeLineBreaks(text) ==
    IF text = <<>> THEN <<>>
    ELSE IF text[1] = LF
         THEN <<Backslash, LetterN>> \o EscapeLineBreaks(Tail(text))
    ELSE IF text[1] = CR /\ Len(text) >= 2 /\ text[2] = LF
         THEN <<Backslash, LetterN>> \o EscapeLineBreaks(Tail(Tail(text)))
    ELSE <<text[1]>> \o EscapeLineBreaks(Tail(text))

\* String.prototype.replace(/\\n/, '\n') without the g flag: the first escape only
UnescapeLineBreaks_FirstOnly(text) ==
    IF \E i \in 1 .. (Len(text) - 1) : text[i] = Backslash /\ text[i + 1] = LetterN
    THEN LET k == CHOOSE i \in 1 .. (Len(text) - 1) :
                      /\ text[i] = Backslash /\ text[i + 1] = LetterN
                      /\ \A j \in 1 .. (i - 1) :
                             ~(text[j] = Backslash /\ text[j + 1] = LetterN)
         IN  SubSeq(text, 1, k - 1) \o <<LF>> \o SubSeq(text, k + 2, Len(text))
    ELSE text

RECURSIVE UnescapeLineBreaks(_)
\* String.prototype.replace(/\\n/g, '\n')
UnescapeLineBreaks(text) ==
    IF text = <<>> THEN <<>>
    ELSE IF text[1] = Backslash /\ Len(text) >= 2 /\ text[2] = LetterN
         THEN <<LF>> \o UnescapeLineBreaks(Tail(Tail(text)))
    ELSE <<text[1]>> \o UnescapeLineBreaks(Tail(text))

\* scenario[h] ?? '' for a dynamic column h of generateCSV, as a cell
AttributeCell(scenario, h) ==
    IF \E i \in 1 .. Len(scenario.attrs) : scenario.attrs[i].key = h
    THEN CellString(scenario.attrs[CHOOSE i \in 1 .. Len(scenario.attrs) :
                                     scenario.attrs[i].key = h].value)
    ELSE <<>>

\* value ?? '' for a sparse field, as a cell
SparseCell(field) == IF field = Null THEN <<>> ELSE NumberToString(field[1])

\* the eight distribution cells of a row
DistData(userData, id) ==
    IF id \in DOMAIN userData
    THEN LET userDist_ == userData[id]
         IN  <<SparseCell(userDist_.baseline.min), SparseCell(userDist_.baseline.max),
               SparseCell(userDist_.baseline.mode),
               SparseCell(userDist_.baseline.confidence),
               SparseCell(userDist_.treatment.min), SparseCell(userDist_.treatment.max),
               SparseCell(userDist_.treatment.mode),
               SparseCell(userDist_.treatment.confidence)>>
    ELSE [i \in 1 .. 8 |-> <<>>]

\* the keys of the first scenario left in insertion order (no sort), the other
\* scenarios' keys after them
ScenarioHeaders_FirstUnsorted(scenarios) ==
    IF scenarios = <<>> THEN <<>>
    ELSE LET first == [j \in 1 .. Len(scenarios[1].attrs) |-> scenarios[1].attrs[j].key]
             all == UNION {{scenarios[i].attrs[j].key : j \in 1 .. Len(scenarios[i].attrs)} :
                               i \in 1 .. Len(scenarios)}
         IN  first \o SortTexts(all \ {first[j] : j \in 1 .. Len(first)})

\* the sorted union of the scenarios' keys other than id, scenario_group, comment
ScenarioHeaders(scenarios) ==
    SortTexts(UNION {{scenarios[i].attrs[j].key : j \in 1 .. Len(scenarios[i].attrs)} :
                         i \in 1 .. Len(scenarios)})

\* generateCSV without the check for an empty list: a header-only text
generateCSV_NoEmptyCheck(scenarios, userData) ==
    [status |-> "ok",
     text |-> JoinWith(<< <<"scenario_id">>, <<"scenario_group">>, COMMENT_HEADER >>
                       \o ScenarioHeaders(scenarios) \o DIST_HEADERS, Comma)]

\* generateCSV: [status |-> "ok", text] or [status |-> "error"] when it throws
generateCSV(scenarios, userData) ==
    IF Len(scenarios) = 0
    THEN [status |-> "error", error |-> "Cannot generate CSV: no scenarios provided"]
    ELSE LET scenarioHeaders == ScenarioHeaders(scenarios)
             headers == << <<"scenario_id">>, <<"scenario_group">>, COMMENT_HEADER >>
                        \o scenarioHeaders \o DIST_HEADERS
             Row(scenario) ==
                 LET scenarioData == [k \in 1 .. Len(scenarioHeaders) |->
                                          AttributeCell(scenario, scenarioHeaders[k])]
                     distData == DistData(userData, scenario.id)
                     sanitizedComment ==
                         EscapeLineBreaks(RemoveCommas(
                             IF scenario.comment = Null THEN <<>> ELSE scenario.comment[1]))
                 IN  JoinWith(<<scenario.id, scenario.scenario_group, sanitizedComment>>
                              \o scenarioData \o distData, Comma)
             rows == [i \in 1 .. Len(scenarios) |-> Row(scenarios[i])]
         IN  [status |-> "ok", text |-> JoinWith(<<JoinWith(headers, Comma)>> \o rows, LF)]

-----------------------------------------------------------------------------
(* services/csvUtils.ts: parseCSV                                          *)

\* header words that the regular expression /yield/i matches
YieldWords == {"Yield", "yield"}

\* findYieldColumn: the first header matching /yield/i, or null
findYieldColumn(headers) ==
    LET Matches(h) == \E i \in 1 .. Len(h) : h[i] \in YieldWords
        found == SelectSeq(headers, Matches)
    IN  IF found = <<>> \/ found[1] = <<>> THEN Null ELSE Some(found[1])

\* DIST_HEADERS.filter(h => !headers.includes(h)) with the validation left out
MissingDistHeaders_None(headers) == <<>>

\* DIST_HEADERS.filter(h => !headers.includes(h))
MissingDistHeaders(headers) == SelectSeq(DIST_HEADERS, LAMBDA h : ~Includes(headers, h))

\* row[header] of the object built by headers.reduce: the cell under the last
\* column named header (values[index] ?? ''), '' standing for undefined as well
RowGet(headers, values, header) ==
    IF ~Includes(headers, header) THEN <<>>
    ELSE LET k == CHOOSE i \in 1 .. Len(headers) :
                      headers[i] = header
                      /\ \A j \in (i + 1) .. Len(headers) : headers[j] # header
         IN  IF k <= Len(values) THEN values[k] ELSE <<>>

\* a blank cell read as the number 0 (Number('') is 0) instead of null
parseValue_BlankIsZero(value) == IF value = <<>> THEN Some(0) ELSE parseFloat(value)

\* parseValue
parseValue(value) == IF value = <<>> THEN Null ELSE parseFloat(value)

\* the attributes of a row: one key per non-reserved header with a non-empty cell,
\* a cell that is a number stored as a number
ScenarioData(headers, values) ==
    LET scenarioDataHeaders == SelectSeq(headers, LAMBDA h : ~Includes(RESERVED_HEADERS, h))
        kept == SelectSeq([k \in 1 .. Len(scenarioDataHeaders) |-> k],
                    LAMBDA k :
                        /\ RowGet(headers, values, scenarioDataHeaders[k]) # <<>>
                        /\ \A j \in 1 .. (k - 1) :
                               scenarioDataHeaders[j] # scenarioDataHeaders[k])
    IN  [n \in 1 .. Len(kept) |->
            LET header == scenarioDataHeaders[kept[n]]
                value == RowGet(headers, values, header)
            IN  [key |-> header,
                 value |-> IF IsNumeric(value) THEN JsNumber(parseFloat(value)[1])
                           ELSE JsString(value)]]

\* only the first differing column reported (find in place of filter)
MismatchedColumns_FirstOnly(comparableHeaders, existingComparable, comparableRow) ==
    LET differing == SelectSeq([k \in 1 .. Len(comparableHeaders) |-> k],
                         LAMBDA k : existingComparable[k] # comparableRow[k])
    IN  IF differing = <<>> THEN <<>> ELSE <<comparableHeaders[differing[1]]>>

\* the columns of a row that differ from the canonical row of its id
MismatchedColumns(comparableHeaders, existingComparable, comparableRow) ==
    LET differing == SelectSeq([k \in 1 .. Len(comparableHeaders) |-> k],
                         LAMBDA k : existingComparable[k] # comparableRow[k])
    IN  [n \in 1 .. Len(differing) |-> comparableHeaders[differing[n]]]

RECURSIVE ParseRows(_, _, _, _)
\* the loop over the data lines, from line i on; acc holds scenarios, userData and
\* canonicalRows as built so far.  Yields acc at the end, or the error thrown.
ParseRows(lines, i, headers, acc) ==
    IF i > Len(lines) THEN acc
    ELSE
      LET line == Trim(lines[i])
          values == TrimAll(SplitOn(line, Comma))
          scenarioId == RowGet(headers, values, <<"scenario_id">>)
          comparableHeaders == SelectSeq(headers, LAMBDA h : h # <<"scenario_group">>)
          comparableRow == [k \in 1 .. Len(comparableHeaders) |->
                               RowGet(headers, values, comparableHeaders[k])]
          isDuplicate == scenarioId \in DOMAIN acc.canonicalRows
          mismatchedColumns ==
              IF isDuplicate
              THEN MismatchedColumns(comparableHeaders, acc.canonicalRows[scenarioId],
                                     comparableRow)
              ELSE <<>>
          group == RowGet(headers, values, <<"scenario_group">>)
          newScenario ==
              [id |-> scenarioId,
               scenario_group |-> IF group = <<>> THEN <<"Unknown">> ELSE group,
               comment |-> Some(UnescapeLineBreaks(RowGet(headers, values, COMMENT_HEADER))),
               attrs |-> ScenarioData(headers, values)]
          Field(h) == parseValue(RowGet(headers, values, <<h>>))
          userBaseline == [min |-> Field("baseline_min"), max |-> Field("baseline_max"),
                           mode |-> Field("baseline_mode"),
                           confidence |-> Field("baseline_confidence")]
          userTreatment == [min |-> Field("treatment_min"), max |-> Field("treatment_max"),
                            mode |-> Field("treatment_mode"),
                            confidence |-> Field("treatment_confidence")]
      IN  IF line = <<>> THEN ParseRows(lines, i + 1, headers, acc)
          ELSE IF scenarioId = <<>>
          THEN [status |-> "error", kind |-> "missingId", row |-> i, columns |-> <<>>]
          ELSE IF mismatchedColumns # <<>>
          THEN [status |-> "error", kind |-> "conflict", row |-> i,
                columns |-> mismatchedColumns]
          ELSE ParseRows(lines, i + 1, headers,
                   [status |-> "ok",
                    scenarios |-> Append(acc.scenarios, newScenario),
                    userData |-> (scenarioId :> [baseline |-> userBaseline,
                                                 treatment |-> userTreatment])
                                 @@ acc.userData,
                    canonicalRows |-> IF isDuplicate THEN acc.canonicalRows
                                      ELSE (scenarioId :> comparableRow)
                                           @@ acc.canonicalRows])

\* parseCSV(csvText, existingScenarios); existingScenarios is never read.
\* [status |-> "ok", scenarios, userElicitationData, yieldColumn], or
\* [status |-> "error", kind, row, columns] for the error thrown
parseCSV(csvText, existingScenarios) ==
    LET lines == SplitOn(Trim(csvText), LF)
        headers == TrimAll(SplitOn(lines[1], Comma))
        missingDistHeaders == MissingDistHeaders(headers)
        done == ParseRows(lines, 2, headers,
                    [status |-> "ok", scenarios |-> <<>>, userData |-> <<>>,
                     canonicalRows |-> <<>>])
    IN  IF Len(lines) < 2
        THEN [status |-> "error", kind |-> "tooFewLines", row |-> 0, columns |-> <<>>]
        ELSE IF ~Includes(headers, <<"scenario_id">>)
        THEN [status |-> "error", kind |-> "missingColumn", row |-> 1,
              columns |-> << <<"scenario_id">> >>]
        ELSE IF ~Includes(headers, <<"scenario_group">>)
        THEN [status |-> "error", kind |-> "missingColumn", row |-> 1,
              columns |-> << <<"scenario_group">> >>]
        ELSE IF Len(missingDistHeaders) > 0
        THEN [status |-> "error", kind |-> "missingColumn", row |-> 1,
              columns |-> missingDistHeaders]
        ELSE IF done.status = "error" THEN done
        ELSE [status |-> "ok", scenarios |-> done.scenarios,
              userElicitationData |-> done.userData,
              yieldColumn |-> findYieldColumn(headers)]

-----------------------------------------------------------------------------
(* Sessions to encode                                                      *)

\* the longest scenario list encoded
MaxScenarios == 2

IdChoices == { <<"s1">>, <<"s2">>, <<Space, "s1">> }

\* comment and attributes of a scenario
ShapeChoices ==
    { [comment |-> Null, attrs |-> <<>>],
      [comment |-> Some(<<"note">>),
       attrs |-> <<[key |-> <<"loc">>, value |-> JsString(<<"north">>)]>>],
      [comment |-> Some(<<"a", Comma, Space, "b", LF, "c">>),
       attrs |-> <<[key |-> <<"yield">>, value |-> JsNumber(N(3))]>>] }

EmptyUserDistribution == [min |-> Null, max |-> Null, mode |-> Null, confidence |-> Null]

\* the distribution record of a scenario: none, or one of three sparse records
\* (only baseline.min set; a field set to 0 and the last column set; all eight set,
\* the last to a number that is not whole)
SparseChoices ==
    { Null,
      Some([baseline |-> [EmptyUserDistribution EXCEPT !.min = Some(N(5))],
            treatment |-> EmptyUserDistribution]),
      Some([baseline |-> [EmptyUserDistribution EXCEPT !.max = Some(0)],
            treatment |-> [EmptyUserDistribution EXCEPT !.confidence = Some(N(50))]]),
      Some([baseline |-> [min |-> Some(N(2)), max |-> Some(N(35)), mode |-> Some(N(12)),
                          confidence |-> Some(N(90))],
            treatment |-> [min |-> Some(N(1)), max |-> Some(N(25)), mode |-> Some(N(7)),
                           confidence |-> Some(N(80) + 1)]]) }

EntryChoices ==
    [id : IdChoices, shape : ShapeChoices, userDist : SparseChoices]

EntryLists ==
    {list \in UNION {[1 .. n -> EntryChoices] : n \in 0 .. MaxScenarios} :
        \A i, j \in 1 .. Len(list) : i # j => list[i].id # list[j].id}

SessionOf(list) ==
    [scenarios |-> [i \in 1 .. Len(list) |->
                       [id |-> list[i].id, scenario_group |-> <<"A">>,
                        comment |-> list[i].shape.comment,
                        attrs |-> list[i].shape.attrs]],
     userData |-> [id \in {list[i].id : i \in {k \in 1 .. Len(list) :
                                                  list[k].userDist # Null}} |->
                      (list[CHOOSE i \in 1 .. Len(list) : list[i].id = id]).userDist[1]]]

NotRun == [status |-> "pending"]

InitCodec ==
    /\ session \in {SessionOf(list) : list \in EntryLists}
    /\ table = None
    /\ csv = NotRun
    /\ parsed = NotRun
    /\ app = None
    /\ EditIdle
    /\ PureIdle

\* App.handleFileDownload: generateCSV(scenarios, userElicitationData)
Export ==
    /\ csv = NotRun
    /\ csv' = generateCSV(session.scenarios, session.userData)
    /\ UNCHANGED <<session, table, parsed, app, editVars, pureVars>>

\* App.handleFileUpload: parseCSV(text, [])
Import ==
    /\ csv.status = "ok"
    /\ parsed = NotRun
    /\ parsed' = parseCSV(csv.text, <<>>)
    /\ UNCHANGED <<session, table, csv, app, editVars, pureVars>>

NextCodec == Export \/ Import

SpecCodec == InitCodec /\ [][NextCodec]_vars

-----------------------------------------------------------------------------
(* Texts to decode                                                         *)

\* the most data rows of a decoded text
MaxRows == 2

REQUIRED_HEADERS == << <<"scenario_id">>, <<"scenario_group">> >> \o DIST_HEADERS

FullHeader ==
    << <<"scenario_id">>, <<"scenario_group">>, COMMENT_HEADER, <<"loc">> >>
    \o DIST_HEADERS

\* the full header; the full header with an unknown extra column; the full header
\* without one required column; the full header without two distribution columns
HeaderChoices ==
    {FullHeader, FullHeader \o << <<"area">> >>}
    \cup {SelectSeq(FullHeader, LAMBDA h : h # REQUIRED_HEADERS[k]) :
              k \in 1 .. Len(REQUIRED_HEADERS)}
    \cup {SelectSeq(FullHeader,
              LAMBDA h : h # <<"baseline_min">> /\ h # <<"treatment_mode">>)}

\* a data row: its cell under each column name
RowChoices ==
    [scenario_id : { <<"s1">>, <<"s2">> },
     scenario_group : { <<"A">>, <<"B">> },
     comment : { <<>> },
     loc : { <<"north">>, <<"south">> },
     area : { <<"1">> },
     baseline_min : { <<>>, <<"5">> },
     baseline_max : { <<>> },
     baseline_mode : { <<>> },
     baseline_confidence : { <<>> },
     treatment_min : { <<>> },
     treatment_max : { <<>> },
     treatment_mode : { <<>> },
     treatment_confidence : { <<"5", "0">> }]

\* the cell of a row under a column
Cell(row, h) == row[h[1]]

\* every header with one fixed row, and the full header with every list of rows
TableChoices ==
    {[header |-> h, rows |-> <<r>>] :
         h \in HeaderChoices,
         r \in {x \in RowChoices : x.scenario_id = <<"s1">> /\ x.scenario_group = <<"A">>
                                   /\ x.loc = <<"north">> /\ x.baseline_min = <<"5">>}}
    \cup {[header |-> FullHeader, rows |-> rows] :
              rows \in UNION {[1 .. n -> RowChoices] : n \in 1 .. MaxRows}}

\* the text of a table: the header line and one line per row, cells joined by commas
TableText(t) ==
    JoinWith(<<JoinWith(t.header, Comma)>>
             \o [i \in 1 .. Len(t.rows) |->
                    JoinWith([k \in 1 .. Len(t.header) |-> Cell(t.rows[i], t.header[k])],
                             Comma)],
             LF)

InitParse ==
    /\ table \in TableChoices
    /\ session = None
    /\ csv = [status |-> "ok", text |-> TableText(table)]
    /\ parsed = NotRun
    /\ app = None
    /\ EditIdle
    /\ PureIdle

NextParse == Import

SpecParse == InitParse /\ [][NextParse]_vars

-----------------------------------------------------------------------------
(* Properties of the codec                                                 *)

NoCommaOrLineBreak(text) == \A i \in 1 .. Len(text) : text[i] \notin {Comma, LF, CR}

\* a scenario attribute value as the text written to its cell
ValueText(value) == CellString(value)

\* the session is non-empty, its ids are unique and non-empty, and no id, group or
\* attribute value holds a comma or a line break
C6_Precondition ==
    LET sc == session.scenarios
    IN  /\ Len(sc) >= 1
        /\ \A i, j \in 1 .. Len(sc) : i # j => sc[i].id # sc[j].id
        /\ \A i \in 1 .. Len(sc) :
              /\ sc[i].id # <<>>
              /\ NoCommaOrLineBreak(sc[i].id)
              /\ NoCommaOrLineBreak(sc[i].scenario_group)
              /\ \A k \in 1 .. Len(sc[i].attrs) :
                     NoCommaOrLineBreak(ValueText(sc[i].attrs[k].value))

\* the sparse record a scenario id had in the session (all unset without a record)
SparseOf(id) ==
    IF id \in DOMAIN session.userData THEN session.userData[id]
    ELSE getEmptyUserScenario

\* decoding succeeded and gave every scenario id the sparse fields it had
DistributionsComeBack ==
    /\ parsed.status = "ok"
    /\ \A i \in 1 .. Len(session.scenarios) :
          LET id == session.scenarios[i].id
          IN  /\ id \in DOMAIN parsed.userElicitationData
              /\ parsed.userElicitationData[id] = SparseOf(id)

DifferingColumns(i, j) ==
    {h \in {table.header[k] : k \in 1 .. Len(table.header)} :
        h # <<"scenario_group">> /\ Cell(table.rows[i], h) # Cell(table.rows[j], h)}

\* the first row with the same scenario_id as row i
FirstWithId(i) ==
    CHOOSE j \in 1 .. i :
        /\ table.rows[j].scenario_id = table.rows[i].scenario_id
        /\ \A k \in 1 .. (j - 1) : table.rows[k].scenario_id # table.rows[i].scenario_id

HasAllRequired(header) ==
    \A k \in 1 .. Len(REQUIRED_HEADERS) : Includes(header, REQUIRED_HEADERS[k])

\* C7: two rows with the same scenario_id, different scenario_group and every other
\* column identical decode without error to exactly one scenario record for that id.
C7_OneRecordPerId ==
    (/\ parsed # NotRun
     /\ HasAllRequired(table.header)
     /\ Len(table.rows) = 2
     /\ table.rows[1].scenario_id = table.rows[2].scenario_id
     /\ table.rows[1].scenario_group # table.rows[2].scenario_group
     /\ DifferingColumns(1, 2) = {})
    => /\ parsed.status = "ok"
       /\ Cardinality({i \in 1 .. Len(parsed.scenarios) :
                          parsed.scenarios[i].id = table.rows[1].scenario_id}) = 1

\* the rows that conflict with the first row of their id
ConflictingRows ==
    {i \in 1 .. Len(table.rows) : DifferingColumns(i, FirstWithId(i)) # {}}

\* C8: decoding fails with a conflict exactly when a row differs from the first row
\* with its scenario_id in a column other than scenario_group, and the columns the
\* error names are exactly the columns in which that row differs.
C8_ConflictColumns ==
    (parsed # NotRun /\ HasAllRequired(table.header))
    => IF ConflictingRows = {}
       THEN parsed.status = "ok"
       ELSE LET i == CHOOSE r \in ConflictingRows : \A q \in ConflictingRows : r <= q
            IN  /\ parsed.status = "error"
                /\ parsed.kind = "conflict"
                /\ {parsed.columns[k] : k \in 1 .. Len(parsed.columns)}
                       = DifferingColumns(i, FirstWithId(i))
                /\ Len(parsed.columns) = Cardinality(DifferingColumns(i, FirstWithId(i)))

\* a second row that repeats the id of the first under another group and differs
\* from it in two other columns
C8_Witness ==
    /\ parsed # NotRun
    /\ parsed.status = "error"
    /\ parsed.kind = "conflict"
    /\ Len(parsed.columns) = 2
    /\ Len(table.rows) = 2
    /\ table.rows[1].scenario_group # table.rows[2].scenario_group

\* C9: decoding fails on the header exactly when the header row lacks scenario_id,
\* scenario_group or one of the eight distribution columns; unknown extra columns
\* do not make it fail.
C9_HeaderValidation ==
    parsed # NotRun
    => IF HasAllRequired(table.header)
       THEN ~(parsed.status = "error" /\ parsed.kind = "missingColumn")
            /\ (ConflictingRows = {} => parsed.status = "ok")
       ELSE /\ parsed.status = "error"
            /\ parsed.kind = "missingColumn"
            /\ \A k \in 1 .. Len(parsed.columns) :
                   ~Includes(table.header, parsed.columns[k])

\* a header that lacks only treatment_mode was rejected
C9_Witness ==
    /\ parsed # NotRun
    /\ parsed.status = "error"
    /\ parsed.kind = "missingColumn"
    /\ Includes(table.header, <<"scenario_id">>)
    /\ Includes(table.header, <<"scenario_group">>)
    /\ ~Includes(table.header, <<"treatment_mode">>)
    /\ Includes(table.header, <<"baseline_min">>)

\* C10: generateCSV fails exactly when the scenario list is empty.
C10_EmptyExport ==
    csv # NotRun => (csv.status = "error" <=> Len(session.scenarios) = 0)

\* the empty session was exported and the export failed
C10_Witness ==
    /\ csv # NotRun
    /\ Len(session.scenarios) = 0
    /\ csv.status = "error"

-----------------------------------------------------------------------------
(* App.handleFileUpload                                                    *)

\* loadedGroups[0], or null when no scenario was loaded
FirstGroup(scenarios) ==
    IF Len(scenarios) = 0 THEN Null ELSE Some(scenarios[1].scenario_group)

\* the App state holding a session
Loaded(s) ==
    [scenarios |-> s.scenarios, userElicitationData |-> s.userData,
     yieldColumn |-> s.yieldColumn, selectedGroup |-> s.selectedGroup]

\* reader.onload with the previous scenarios kept in front of the decoded ones
handleFileUpload_Merge(state, text) ==
    LET parsedData == parseCSV(text, <<>>)
    IN  IF parsedData.status = "error" THEN state
        ELSE [scenarios |-> state.scenarios \o parsedData.scenarios,
              userElicitationData |-> parsedData.userElicitationData,
              yieldColumn |-> parsedData.yieldColumn,
              selectedGroup |-> FirstGroup(parsedData.scenarios)]

\* reader.onload with the scenarios cleared before the text is decoded
handleFileUpload_ClearFirst(state, text) ==
    LET parsedData == parseCSV(text, <<>>)
    IN  IF parsedData.status = "error" THEN [state EXCEPT !.scenarios = <<>>]
        ELSE [scenarios |-> parsedData.scenarios,
              userElicitationData |-> parsedData.userElicitationData,
              yieldColumn |-> parsedData.yieldColumn,
              selectedGroup |-> FirstGroup(parsedData.scenarios)]

\* a successful upload that leaves the selected group as it was
handleFileUpload_KeepGroup(state, text) ==
    LET parsedData == parseCSV(text, <<>>)
    IN  IF parsedData.status = "error" THEN state
        ELSE [scenarios |-> parsedData.scenarios,
              userElicitationData |-> parsedData.userElicitationData,
              yieldColumn |-> parsedData.yieldColumn,
              selectedGroup |-> state.selectedGroup]

\* reader.onload of handleFileUpload: the App state after the file text was read;
\* an error thrown by parseCSV is caught before any state is set
handleFileUpload(state, text) ==
    LET parsedData == parseCSV(text, <<>>)
    IN  IF parsedData.status = "error" THEN state
        ELSE [scenarios |-> parsedData.scenarios,
              userElicitationData |-> parsedData.userElicitationData,
              yieldColumn |-> parsedData.yieldColumn,
              selectedGroup |-> FirstGroup(parsedData.scenarios)]

\* sessions loaded before the upload: one scenario with a set field; two scenarios
\* in two groups with the second group selected and a yield column
PriorSessions ==
    { [scenarios |-> <<[id |-> <<"s2">>, scenario_group |-> <<"B">>, comment |-> Null,
                        attrs |-> <<[key |-> <<"loc">>, value |-> JsString(<<"south">>)]>>]>>,
       userData |-> (<<"s2">> :>
                        [baseline |-> [EmptyUserDistribution EXCEPT !.min = Some(N(5))],
                         treatment |-> EmptyUserDistribution]),
       yieldColumn |-> Null,
       selectedGroup |-> Some(<<"B">>)],
      [scenarios |-> <<[id |-> <<"s1">>, scenario_group |-> <<"A">>,
                        comment |-> Some(<<"note">>),
                        attrs |-> <<[key |-> <<"yield">>, value |-> JsNumber(N(3))]>>],
                       [id |-> <<"s2">>, scenario_group |-> <<"B">>, comment |-> Null,
                        attrs |-> <<[key |-> <<"yield">>, value |-> JsNumber(N(4))]>>]>>,
       userData |-> (<<"s1">> :>
                        [baseline |-> [min |-> Some(N(2)), max |-> Some(N(35)),
                                       mode |-> Some(N(12)), confidence |-> Some(N(90))],
                         treatment |-> [min |-> Some(N(1)), max |-> Some(N(25)),
                                        mode |-> Some(N(7)), confidence |-> Some(N(80))]]),
       yieldColumn |-> Some(<<"yield">>),
       selectedGroup |-> Some(<<"B">>)] }

\* a data row of an uploaded file: a blank or present id, a treatment_min that is
\* blank, above baseline_min, or not a number
UploadRowChoices ==
    [scenario_id : { <<>>, <<"s1">>, <<"s2">> },
     scenario_group : { <<"A">>, <<"B">> },
     comment : { <<>> },
     loc : { <<"north">> },
     area : { <<"1">> },
     baseline_min : { <<"5">> },
     baseline_max : { <<>> },
     baseline_mode : { <<>> },
     baseline_confidence : { <<>> },
     treatment_min : { <<>>, <<"9">>, <<"x">> },
     treatment_max : { <<>> },
     treatment_mode : { <<>> },
     treatment_confidence : { <<"5", "0">> }]

\* a header line alone; every header with one fixed row; the full header with
\* every list of rows
UploadTables ==
    {[header |-> FullHeader, rows |-> <<>>]}
    \cup {[header |-> h, rows |-> <<r>>] :
              h \in HeaderChoices,
              r \in {x \in UploadRowChoices :
                        x.scenario_id = <<"s1">> /\ x.scenario_group = <<"A">>
                        /\ x.treatment_min = <<>>}}
    \cup {[header |-> FullHeader, rows |-> rows] :
              rows \in UNION {[1 .. n -> UploadRowChoices] : n \in 1 .. MaxRows}}

InitUpload ==
    /\ session \in PriorSessions
    /\ app = Loaded(session)
    /\ table \in UploadTables
    /\ csv = [status |-> "ok", text |-> TableText(table)]
    /\ parsed = NotRun
    /\ EditIdle
    /\ PureIdle

\* App.handleFileUpload: the file is read and decoded, and the state is replaced
Upload ==
    /\ parsed = NotRun
    /\ parsed' = parseCSV(csv.text, <<>>)
    /\ app' = handleFileUpload(app, csv.text)
    /\ UNCHANGED <<session, table, csv, editVars, pureVars>>

NextUpload == Upload

SpecUpload == InitUpload /\ [][NextUpload]_vars

\* C11: the result of parseCSV is the same whatever scenarios it is handed as
\* existingScenarios, and after a successful upload the App's scenarios, distributions
\* and yield column are exactly the decoded ones: nothing of the previous session
\* is left.
C11_ImportRebuilds ==
    parsed # NotRun
    => /\ parseCSV(csv.text, session.scenarios) = parseCSV(csv.text, <<>>)
       /\ parsed.status = "ok"
          => /\ app.scenarios = parsed.scenarios
             /\ app.userElicitationData = parsed.userElicitationData
             /\ app.yieldColumn = parsed.yieldColumn

\* a file without the scenario the previous session held was loaded over it
C11_Witness ==
    /\ parsed # NotRun
    /\ parsed.status = "ok"
    /\ Len(session.scenarios) = 2
    /\ session.yieldColumn # Null
    /\ \A i \in 1 .. Len(app.scenarios) : app.scenarios[i].id = <<"s1">>
    /\ app.yieldColumn = Null

\* C12: when parseCSV fails, the upload leaves scenarios, userElicitationData,
\* yieldColumn and selectedGroup as they were.
C12_FailedImportAtomic ==
    (parsed # NotRun /\ parsed.status = "error") => app = Loaded(session)

\* a file whose second row has no scenario_id was refused and the session kept
C12_Witness ==
    /\ parsed # NotRun
    /\ parsed.status = "error"
    /\ parsed.kind = "missingId"
    /\ parsed.row = 3
    /\ Len(app.scenarios) = 2

\* every field of a sparse scenario distribution is unset or a number
AllNumbers(u) == \A t \in Types, f \in Fields : Len(u[t][f]) <= 1

\* C13: for every text that parseCSV accepts, each returned sparse scenario
\* distribution has realized treatment min, mode and max at most the realized
\* baseline value of the same field.
C13_ImportDominance ==
    (parsed # NotRun /\ parsed.status = "ok")
    => \A id \in DOMAIN parsed.userElicitationData :
           AllNumbers(parsed.userElicitationData[id])
           => Dominates(parsed.userElicitationData[id])

\* the cells of row i under the distribution columns of the header
DistCells(i) ==
    {Cell(table.rows[i], table.header[k]) :
        k \in {j \in 1 .. Len(table.header) : Includes(DIST_HEADERS, table.header[j])}}

\* C14: when a data row has a non-blank cell in a distribution column that is not
\* a number, parseCSV fails.
C14_NonNumericRejected ==
    (/\ parsed # NotRun
     /\ \E i \in 1 .. Len(table.rows) :
            \E cell \in DistCells(i) : cell # <<>> /\ ~IsNumeric(cell))
    => parsed.status = "error"

-----------------------------------------------------------------------------
(* Confidence of an edited scenario                                        *)

\* the confidences a scenario starts with: both unset, or the baseline's loaded
\* from a file as 50.5 and the treatment's as 1
StartConfidences ==
    { [baseline |-> Null, treatment |-> Null],
      [baseline |-> Some(N(50) + 1), treatment |-> Some(N(1))] }

InitConfidence ==
    /\ \E c \in StartConfidences :
          userDist = [baseline |-> [EmptyUserDistribution EXCEPT
                                        !.confidence = c.baseline],
                      treatment |-> [EmptyUserDistribution EXCEPT
                                         !.confidence = c.treatment]]
    /\ lastEdit = [op |-> None]
    /\ PureIdle
    /\ CodecIdle

NextConfidence == ConfidenceEdit \/ TableFieldEdit \/ InputsFieldEdit

SpecConfidence == InitConfidence /\ [][NextConfidence]_vars

InRange(c) == N(1) <= c /\ c <= N(100)

\* C15 as claimed: from a scenario whose confidences are unset or within [1, 100],
\* after any sequence of edits the realized confidence of baseline and of treatment
\* is an integer in [1, 100].
C15_ConfidenceIntegerInRange ==
    lastEdit.op # None
    => \A type \in Types :
           /\ InRange(Realize(userDist, type).confidence)
           /\ IsInteger(Realize(userDist, type).confidence)

\* C15 amended: from such a scenario, after any sequence of edits the realized
\* confidence of baseline and of treatment is within [1, 100], and it is an integer
\* unless it still is a confidence the scenario started with.
C15_ConfidenceRange ==
    \A type \in Types :
        /\ InRange(Realize(userDist, type).confidence)
        /\ \/ IsInteger(Realize(userDist, type).confidence)
           \/ \E c \in StartConfidences :
                  c[type] = Some(Realize(userDist, type).confidence)

\* a confidence edit with a value above 100 was clamped, next to a confidence set
\* by an earlier edit with a value below 1
C15_Witness ==
    /\ lastEdit.op = "inputsField"
    /\ lastEdit.field = "confidence"
    /\ lastEdit.type = "baseline"
    /\ Realize(userDist, "baseline").confidence = N(100)
    /\ Realize(userDist, "treatment").confidence = N(1)
    /\ userDist.baseline.min # Null

-----------------------------------------------------------------------------
(* One edit of a scenario, with the scenario before it kept                *)

\* whole numbers handed to an edit: every ProbeStep-th from one step below 0 to one
\* step above 100
ProbeStep == 10

ProbeValues == {v \in N(0 - ProbeStep) .. N(100 + ProbeStep) : v % N(ProbeStep) = 0}

AllSet(d) == [f \in Fields |-> Some(d[f])]

\* one side of a scenario before the edit: all unset; every field set to its default
\* value (as read from a file that spells the default out); set to other values
StartBaselines ==
    { EmptyUserDistribution,
      AllSet(DEFAULT_BASELINE),
      [min |-> Some(N(5)), mode |-> Some(N(80)), max |-> Some(N(90)),
       confidence |-> Some(N(80))] }

StartTreatments ==
    { EmptyUserDistribution,
      AllSet(DEFAULT_TREATMENT),
      [min |-> Null, mode |-> Some(N(8)), max |-> Some(N(12)),
       confidence |-> Some(N(50) + 1)] }

InitOneEdit ==
    /\ userDist \in [baseline : StartBaselines, treatment : StartTreatments]
    /\ lastEdit = [op |-> None]
    /\ PureIdle
    /\ CodecIdle

\* a per-field edit handled by ScenarioTable.handleDistributionChange
EditTableField ==
    \E type \in Types, field \in Fields, value \in ProbeValues :
        /\ lastEdit.op = None
        /\ userDist' = AppHandleDistributionChange(userDist, type,
                           handleDistributionChange(userDist, type, field, value))
        /\ lastEdit' = [op |-> "tableField", type |-> type, field |-> field,
                        value |-> value, before |-> userDist]
        /\ UNCHANGED <<pureVars, codecVars>>

\* a per-field edit handled by an InputRow of DistributionInputs
EditInputsField ==
    \E type \in Types, field \in Fields, value \in ProbeValues :
        /\ lastEdit.op = None
        /\ userDist' = AppHandleDistributionChange(userDist, type,
                           handleValueChange(userDist[type], Defaults(type),
                               InputRowMaxConstraints(type), field, value))
        /\ lastEdit' = [op |-> "inputsField", type |-> type, field |-> field,
                        value |-> value, before |-> userDist]
        /\ UNCHANGED <<pureVars, codecVars>>

\* a drag of one handle of the baseline or of the treatment slider
DragSlider ==
    \E type \in Types, dragging \in Handles, newValue \in SliderValues :
        LET d == Realize(userDist, type)
            values == handleMove(d.min, d.mode, d.max, DEFAULT_SLIDER_RANGE.min,
                                 DEFAULT_SLIDER_RANGE.max, dragging, newValue)
        IN  /\ lastEdit.op = None
            /\ handleMoveFires(d.min, d.mode, d.max, values)
            /\ userDist' = IF type = "baseline"
                           THEN BaselineSliderOnChange(userDist, values)
                           ELSE TreatmentSliderOnChange(userDist, values)
            /\ lastEdit' = [op |-> "slider", type |-> type, field |-> dragging,
                            value |-> newValue, before |-> userDist]
            /\ UNCHANGED <<pureVars, codecVars>>

NextOneEdit == EditTableField \/ EditInputsField \/ DragSlider

SpecOneEdit == InitOneEdit /\ [][NextOneEdit]_vars

\* C16: a per-field edit that sets baseline.max to a whole number v with
\* realized min <= v < realized mode results in realized max = v and realized
\* mode = v, with realized min and confidence unchanged.
C16_MaxEditLowersMode ==
    (/\ lastEdit.op \in {"tableField", "inputsField"}
     /\ lastEdit.type = "baseline"
     /\ lastEdit.field = "max"
     /\ Realize(lastEdit.before, "baseline").min <= lastEdit.value
     /\ lastEdit.value < Realize(lastEdit.before, "baseline").mode)
    => /\ Realize(userDist, "baseline").max = lastEdit.value
       /\ Realize(userDist, "baseline").mode = lastEdit.value
       /\ Realize(userDist, "baseline").min = Realize(lastEdit.before, "baseline").min
       /\ Realize(userDist, "baseline").confidence
              = Realize(lastEdit.before, "baseline").confidence

\* max := 10 on the default baseline (mode 15) gave mode 10
C16_Witness ==
    /\ lastEdit.op = "inputsField"
    /\ lastEdit.type = "baseline"
    /\ lastEdit.field = "max"
    /\ lastEdit.value = N(10)
    /\ lastEdit.before.baseline = EmptyUserDistribution
    /\ Realize(userDist, "baseline").mode = N(10)
    /\ userDist.baseline.max = Some(N(10))

C18_SetFieldsStaySet ==
    [][\A type \in Types, f \in Fields :
           userDist[type][f] # Null => userDist'[type][f] # Null]_vars

-----------------------------------------------------------------------------
(* Column layout of generateCSV                                            *)

\* the longest scenario list whose layout is examined
MaxLayout == 2

\* the attributes a scenario may carry, each with its value
LayoutAttrs ==
    { [key |-> <<"loc">>, value |-> JsString(<<"north">>)],
      [key |-> <<"Yield">>, value |-> JsNumber(N(3))],
      [key |-> <<"area">>, value |-> JsNumber(N(1) + 1)] }

\* the own keys of a scenario object: any of the attributes, in any insertion order
LayoutAttrLists ==
    {a \in UNION {[1 .. n -> LayoutAttrs] : n \in 0 .. Cardinality(LayoutAttrs)} :
        \A i, j \in 1 .. Len(a) : i # j => a[i] # a[j]}

LayoutIds == << <<"s1">>, <<"s2">>, <<"s3">> >>

LayoutSessions ==
    {[scenarios |-> [i \in 1 .. Len(attrs) |->
                        [id |-> LayoutIds[i], scenario_group |-> <<"A">>,
                         comment |-> Null, attrs |-> attrs[i]]],
      userData |-> <<>>] :
         attrs \in UNION {[1 .. n -> LayoutAttrLists] : n \in 0 .. MaxLayout}}

InitLayout ==
    /\ session \in LayoutSessions
    /\ table = None
    /\ csv = NotRun
    /\ parsed = NotRun
    /\ app = None
    /\ EditIdle
    /\ PureIdle

NextLayout == Export

SpecLayout == InitLayout /\ [][NextLayout]_vars

HasKey(scenario, h) == \E j \in 1 .. Len(scenario.attrs) : scenario.attrs[j].key = h

ValueOfKey(scenario, h) ==
    scenario.attrs[CHOOSE j \in 1 .. Len(scenario.attrs) : scenario.attrs[j].key = h].value

\* the same scenarios with the keys of each inserted in ascending order
KeysInAscendingOrder(scenarios) ==
    [i \in 1 .. Len(scenarios) |->
        [scenarios[i] EXCEPT !.attrs =
            LET keys == SortTexts({scenarios[i].attrs[j].key :
                                       j \in 1 .. Len(scenarios[i].attrs)})
            IN  [k \in 1 .. Len(keys) |->
                    [key |-> keys[k], value |-> ValueOfKey(scenarios[i], keys[k])]]]]

\* C19: the header of the text generateCSV returns is scenario_id, scenario_group,
\* comment, then the union of the scenarios' attribute keys in ascending
\* lexicographic order, each once, then the eight distribution columns in their
\* fixed order; there is one line per scenario, whose cell under an attribute it
\* lacks is blank and under one it has is its value; and the text is the same in
\* whatever order the keys of any scenario were inserted.
C19_ColumnLayout ==
    csv.status = "ok" =>
        LET sc == session.scenarios
            lines == SplitOn(csv.text, LF)
            header == SplitOn(lines[1], Comma)
            keys == SubSeq(header, 4, Len(header) - 8)
        IN  /\ Len(lines) = Len(sc) + 1
            /\ Len(header) >= 11
            /\ SubSeq(header, 1, 3)
                   = << <<"scenario_id">>, <<"scenario_group">>, <<"comment">> >>
            /\ SubSeq(header, Len(header) - 7, Len(header))
                   = << <<"baseline_min">>, <<"baseline_max">>, <<"baseline_mode">>,
                        <<"baseline_confidence">>, <<"treatment_min">>,
                        <<"treatment_max">>, <<"treatment_mode">>,
                        <<"treatment_confidence">> >>
            /\ {keys[k] : k \in 1 .. Len(keys)}
                   = UNION {{sc[i].attrs[j].key : j \in 1 .. Len(sc[i].attrs)} :
                                i \in 1 .. Len(sc)}
            /\ \A k, l \in 1 .. Len(keys) : k < l => TextLess(keys[k], keys[l])
            /\ \A i \in 1 .. Len(sc) :
                   LET cells == SplitOn(lines[i + 1], Comma)
                   IN  /\ Len(cells) = Len(header)
                       /\ \A k \in 1 .. Len(keys) :
                              cells[3 + k] = IF HasKey(sc[i], keys[k])
                                             THEN CellString(ValueOfKey(sc[i], keys[k]))
                                             ELSE <<>>
            /\ csv = generateCSV(KeysInAscendingOrder(sc), session.userData)

\* a text was generated for two scenarios, the first with two keys inserted in
\* descending order, the second lacking one of them
C19_Witness ==
    /\ csv.status = "ok"
    /\ Len(session.scenarios) = 2
    /\ Len(session.scenarios[1].attrs) = 2
    /\ TextLess(session.scenarios[1].attrs[2].key, session.scenarios[1].attrs[1].key)
    /\ ~HasKey(session.scenarios[2], session.scenarios[1].attrs[1].key)

-----------------------------------------------------------------------------
(* Comments through generateCSV and parseCSV                               *)

\* the longest comment encoded
MaxComment == 3

CommentChars == {"a", Comma, LF, CR, Backslash, LetterN, Space}

CommentChoices == UNION {[1 .. n -> CommentChars] : n \in 0 .. MaxComment}

InitComment ==
    /\ session \in {[scenarios |-> <<[id |-> <<"s1">>, scenario_group |-> <<"A">>,
                                      comment |-> Some(c), attrs |-> <<>>]>>,
                     userData |-> <<>>] : c \in CommentChoices}
    /\ table = None
    /\ csv = NotRun
    /\ parsed = NotRun
    /\ app = None
    /\ EditIdle
    /\ PureIdle

NextComment == Export \/ Import

SpecComment == InitComment /\ [][NextComment]_vars

\* the comment of the session's scenario
CommentEncoded == session.scenarios[1].comment[1]

\* the text was decoded into one scenario whose comment is text
DecodedCommentIs(text) ==
    /\ parsed.status = "ok"
    /\ Len(parsed.scenarios) = 1
    /\ parsed.scenarios[1].comment = Some(text)

HasPair(text, first, second) ==
    \E i \in 1 .. (Len(text) - 1) : text[i] = first /\ text[i + 1] = second

-----------------------------------------------------------------------------
(* services/betaUtils.ts                                                   *)
(* The shape parameters and the sample positions are computed exactly, as  *)
(* fractions [n, d] in lowest terms with d > 0; [n |-> 0, d |-> 0] is NaN, *)
(* the result of 0 / 0.  The density of a sample is kept as the term it is *)
(* computed from, [pdf, range]: for shape parameters above 0 and a         *)
(* position inside (0, 1) it is a finite number that is not negative.      *)

RECURSIVE GCD(_, _)
GCD(a, b) == IF b = 0 THEN a ELSE GCD(b, a % b)

Abs(n) == IF n < 0 THEN 0 - n ELSE n

\* the fraction n / d, d >= 0, in lowest terms
Rat(n, d) ==
    IF d = 0 THEN [n |-> 0, d |-> 0]
    ELSE LET g == GCD(Abs(n), d) IN [n |-> n \div g, d |-> d \div g]

RatNaN == Rat(0, 0)

\* isNaN
IsRatNaN(a) == a.d = 0

\* the number x of a distribution as a fraction
RatOf(x) == Rat(x, Den)

RatAdd(a, b) ==
    IF IsRatNaN(a) \/ IsRatNaN(b) THEN RatNaN
    ELSE LET g == GCD(a.d, b.d)
         IN  Rat(a.n * (b.d \div g) + b.n * (a.d \div g), (a.d \div g) * b.d)

RatSub(a, b) == RatAdd(a, [n |-> 0 - b.n, d |-> b.d])

RatMul(a, b) ==
    IF IsRatNaN(a) \/ IsRatNaN(b) THEN RatNaN
    ELSE LET x == Rat(a.n, b.d)
             y == Rat(b.n, a.d)
         IN  Rat(x.n * y.n, x.d * y.d)

\* a / b; the only division by 0 made is 0 / 0
RatDiv(a, b) ==
    IF IsRatNaN(a) \/ IsRatNaN(b) \/ b.n = 0 THEN RatNaN
    ELSE IF b.n > 0 THEN RatMul(a, [n |-> b.d, d |-> b.n])
    ELSE RatMul(a, [n |-> 0 - b.d, d |-> 0 - b.n])

\* a < b, a <= b (false when either is NaN)
RatLess(a, b) ==
    /\ ~IsRatNaN(a)
    /\ ~IsRatNaN(b)
    /\ a.n * (b.d \div GCD(a.d, b.d)) < b.n * (a.d \div GCD(a.d, b.d))
RatLeq(a, b) ==
    /\ ~IsRatNaN(a)
    /\ ~IsRatNaN(b)
    /\ a.n * (b.d \div GCD(a.d, b.d)) <= b.n * (a.d \div GCD(a.d, b.d))

\* Math.max, Math.min
RatMax(a, b) ==
    IF IsRatNaN(a) \/ IsRatNaN(b) THEN RatNaN ELSE IF RatLess(a, b) THEN b ELSE a
RatMin(a, b) ==
    IF IsRatNaN(a) \/ IsRatNaN(b) THEN RatNaN ELSE IF RatLess(b, a) THEN b ELSE a

\* calculateBetaParams without the clamp of the mode
calculateBetaParams_NoClamp(mode, confidence) ==
    LET kappa == RatAdd(Rat(4, 1), RatMul(RatDiv(confidence, Rat(100, 1)), Rat(20, 1)))
    IN  [alpha |-> RatAdd(RatMul(mode, RatSub(kappa, Rat(2, 1))), Rat(1, 1)),
         beta |-> RatAdd(RatMul(RatSub(Rat(1, 1), mode), RatSub(kappa, Rat(2, 1))),
                         Rat(1, 1))]

\* calculateBetaParams(mode, confidence)
calculateBetaParams(mode, confidence) ==
    LET m == RatMax(Rat(1, 100), RatMin(Rat(99, 100), mode))
        kappa == RatAdd(Rat(4, 1), RatMul(RatDiv(confidence, Rat(100, 1)), Rat(20, 1)))
    IN  [alpha |-> RatAdd(RatMul(m, RatSub(kappa, Rat(2, 1))), Rat(1, 1)),
         beta |-> RatAdd(RatMul(RatSub(Rat(1, 1), m), RatSub(kappa, Rat(2, 1))),
                         Rat(1, 1))]

\* the flat result with one point too few
ZeroPoints_OneShort(min, max, numPoints) ==
    [k \in 1 .. (numPoints - 1) |->
        [x |-> RatAdd(RatOf(min),
                      RatDiv(RatMul(RatOf(max - min), Rat(k - 1, 1)),
                             Rat(numPoints - 1, 1))),
         y |-> Rat(0, 1)]]

\* Array(numPoints).fill(0).map((_, i) =>
\*     ({ x: min + (max - min) * i / (numPoints - 1), y: 0 }))
ZeroPoints(min, max, numPoints) ==
    [k \in 1 .. numPoints |->
        [x |-> RatAdd(RatOf(min),
                      RatDiv(RatMul(RatOf(max - min), Rat(k - 1, 1)),
                             Rat(numPoints - 1, 1))),
         y |-> Rat(0, 1)]]

\* the points of the loop of getBetaPdfPoints: the density at x_safe scaled by the
\* range, or 0 where it is not finite (x_norm is NaN when numPoints is 1)
SampledPoints(min, max, alpha, beta, numPoints) ==
    [k \in 1 .. numPoints |->
        LET range == max - min
            x_norm == RatDiv(Rat(k - 1, 1), Rat(numPoints - 1, 1))
            x_safe == RatMax(Rat(1, 1000000), RatMin(Rat(999999, 1000000), x_norm))
            x == RatAdd(RatOf(min), RatMul(x_norm, RatOf(range)))
        IN  IF IsRatNaN(x_safe) THEN [x |-> x, y |-> Rat(0, 1)]
            ELSE [x |-> x,
                  y |-> [pdf |-> [alpha |-> alpha, beta |-> beta, x |-> x_safe],
                         range |-> RatOf(range)]]]

\* getBetaPdfPoints without the check of the shape parameters
getBetaPdfPoints_NoShapeCheck(min, max, mode, confidence, numPoints) ==
    IF min >= max THEN ZeroPoints(min, max, numPoints)
    ELSE LET scaledMode == RatDiv(RatOf(mode - min), RatOf(max - min))
             params == calculateBetaParams(scaledMode, RatOf(confidence))
         IN  SampledPoints(min, max, params.alpha, params.beta, numPoints)

\* getBetaPdfPoints(min, max, mode, confidence, numPoints); logBeta is finite
\* for shape parameters above 0
getBetaPdfPoints(min, max, mode, confidence, numPoints) ==
    IF min >= max THEN ZeroPoints(min, max, numPoints)
    ELSE LET scaledMode == RatDiv(RatOf(mode - min), RatOf(max - min))
             params == calculateBetaParams(scaledMode, RatOf(confidence))
         IN  IF \/ RatLeq(params.alpha, Rat(0, 1))
                \/ RatLeq(params.beta, Rat(0, 1))
                \/ IsRatNaN(params.alpha)
                \/ IsRatNaN(params.beta)
             THEN ZeroPoints(min, max, numPoints)
             ELSE SampledPoints(min, max, params.alpha, params.beta, numPoints)

-----------------------------------------------------------------------------
(* Distributions handed to the chart                                       *)

\* the most points asked for
MaxPoints == 3

\* interval ends and modes: whole numbers and a half, inside and outside 0 .. 100
ChartEnds == {N(0), N(10), N(30)}
ChartModes == {N(0 - 5), N(0), N(10), N(15), N(15) + 1, N(30), N(40)}

\* confidences: those the edits produce (1 .. 100) and those a file can hold
ChartConfidences ==
    {N(0 - 50), N(0 - 20), N(0 - 10), N(0), N(1), N(50) + 1, N(100), N(150)}

InitChart ==
    /\ chart \in [min : ChartEnds, max : ChartEnds, mode : ChartModes,
                  confidence : ChartConfidences, numPoints : 0 .. MaxPoints,
                  points : {Pending}, params : {Pending}]
    /\ dist = None
    /\ defs = None
    /\ sparse = None
    /\ realized = None
    /\ EditIdle
    /\ CodecIdle

\* the chart samples the density of the distribution
SampleDensity ==
    /\ chart.points = Pending
    /\ chart' = [chart EXCEPT !.points =
                    <<getBetaPdfPoints(chart.min, chart.max, chart.mode,
                                       chart.confidence, chart.numPoints)>>]
    /\ UNCHANGED <<dist, defs, sparse, realized, editVars, codecVars>>

\* the shape parameters of a distribution over a proper interval, as
\* getBetaPdfPoints obtains them
MapShape ==
    /\ chart.params = Pending
    /\ chart.min < chart.max
    /\ chart' = [chart EXCEPT !.params =
                    <<calculateBetaParams(
                          RatDiv(RatOf(chart.mode - chart.min),
                                 RatOf(chart.max - chart.min)),
                          RatOf(chart.confidence))>>]
    /\ UNCHANGED <<dist, defs, sparse, realized, editVars, codecVars>>

NextChart == SampleDensity \/ MapShape

SpecChart == InitChart /\ [][NextChart]_vars

\* the density of a point is 0
IsZeroY(point) == point.y = Rat(0, 1)

\* the shape parameters getBetaPdfPoints works with for the chart's distribution
ChartParams ==
    calculateBetaParams(RatDiv(RatOf(chart.mode - chart.min),
                               RatOf(chart.max - chart.min)),
                        RatOf(chart.confidence))

\* C23: for every min >= max, every mode and confidence and every point count N,
\* getBetaPdfPoints returns exactly N points, each with y = 0 (it has no error
\* result).
C23_DegenerateInterval ==
    (chart.points # Pending /\ chart.min >= chart.max)
    => /\ Len(chart.points[1]) = chart.numPoints
       /\ \A k \in 1 .. Len(chart.points[1]) : IsZeroY(chart.points[1][k])

\* three points were returned for an interval with min above max
C23_Witness ==
    /\ chart.points # Pending
    /\ chart.min > chart.max
    /\ chart.numPoints = 3
    /\ Len(chart.points[1]) = 3

\* C24: when min < max and the confidence makes alpha <= 0 or beta <= 0,
\* getBetaPdfPoints returns N points (N >= 1, so not an empty sequence), each
\* with y = 0.
C24_NonPositiveShape ==
    (/\ chart.points # Pending
     /\ chart.min < chart.max
     /\ chart.numPoints >= 1
     /\ \/ RatLeq(ChartParams.alpha, Rat(0, 1))
        \/ RatLeq(ChartParams.beta, Rat(0, 1)))
    => /\ Len(chart.points[1]) = chart.numPoints
       /\ chart.points[1] # <<>>
       /\ \A k \in 1 .. Len(chart.points[1]) : IsZeroY(chart.points[1][k])

\* a confidence of -50 over [0, 30] with mode 15 (alpha = beta = -3) gave three
\* points
C24_Witness ==
    /\ chart.points # Pending
    /\ chart.min = N(0)
    /\ chart.max = N(30)
    /\ chart.mode = N(15)
    /\ chart.confidence = N(0 - 50)
    /\ ChartParams.alpha = Rat(0 - 3, 1)
    /\ Len(chart.points[1]) = 3

-----------------------------------------------------------------------------
(* Properties of one slider drag                                           *)

\* 0 <= min <= mode <= max <= 100
ValidTriple(d) ==
    /\ N(0) <= d.min
    /\ d.min <= d.mode
    /\ d.mode <= d.max
    /\ d.max <= N(100)

\* C26: from every scenario whose distribution of the dragged slider has
\* 0 <= min <= mode <= max <= 100 (values above the slider range 0..40 included),
\* a drag of any one handle to any position leaves that distribution with
\* min <= mode <= max.
C26_DragKeepsOrdering ==
    (/\ lastEdit.op = "slider"
     /\ ValidTriple(Realize(lastEdit.before, lastEdit.type)))
    => /\ Realize(userDist, lastEdit.type).min <= Realize(userDist, lastEdit.type).mode
       /\ Realize(userDist, lastEdit.type).mode <= Realize(userDist, lastEdit.type).max

\* the triple handleMove handed to onChange in the last drag
DraggedValues ==
    LET d == Realize(lastEdit.before, lastEdit.type)
    IN  handleMove(d.min, d.mode, d.max, DEFAULT_SLIDER_RANGE.min,
                   DEFAULT_SLIDER_RANGE.max, lastEdit.field, lastEdit.value)

\* the cascade condition of the baseline slider's onChange held in the last drag
CascadeTriggered ==
    LET t == Realize(lastEdit.before, "treatment")
    IN  /\ lastEdit.op = "slider"
        /\ lastEdit.type = "baseline"
        /\ \/ t.min > DraggedValues.min
           \/ t.mode > DraggedValues.mode
           \/ t.max > DraggedValues.max

\* C27: when a change of the baseline slider triggers the treatment cascade, both
\* updates of the event take effect: afterwards the baseline holds the new triple
\* (its confidence as before) and the treatment holds, field by field, the smaller
\* of its old value and the new baseline value (its confidence as before).
C27_NoLostUpdate ==
    CascadeTriggered
    => LET b == Realize(userDist, "baseline")
           t == Realize(userDist, "treatment")
           oldB == Realize(lastEdit.before, "baseline")
           oldT == Realize(lastEdit.before, "treatment")
       IN  /\ b.min = DraggedValues.min
           /\ b.mode = DraggedValues.mode
           /\ b.max = DraggedValues.max
           /\ b.confidence = oldB.confidence
           /\ t.min = MathMin(oldT.min, DraggedValues.min)
           /\ t.mode = MathMin(oldT.mode, DraggedValues.mode)
           /\ t.max = MathMin(oldT.max, DraggedValues.max)
           /\ t.confidence = oldT.confidence

\* the max handle of the default baseline was dragged to 10 and stopped at the mode,
\* 15: the baseline holds max 15 and the treatment max was pulled down from 20 to 15
C27_Witness ==
    /\ CascadeTriggered
    /\ lastEdit.before = getEmptyUserScenario
    /\ lastEdit.field = "max"
    /\ lastEdit.value = N(10)
    /\ userDist.baseline.max = Some(N(15))
    /\ userDist.treatment.max = Some(N(15))

-----------------------------------------------------------------------------
(* Rows and header of generateCSV for arbitrary ids, groups and values     *)

\* the longest scenario list whose rows are examined
MaxAlign == 2

\* ids by position in the list, plain or holding a comma
AlignIds(i) ==
    IF i = 1 THEN { <<"s1">>, <<"s1", Comma, "x">> }
    ELSE IF i = 2 THEN { <<"s2">>, <<"s2", Comma, "x">> }
    ELSE { <<"s3">>, <<"s3", Comma, "x">> }

AlignGroups == { <<"A">>, <<"A", Comma, "B">> }

\* the value of the attribute loc: plain, holding a comma, holding a line feed
AlignValues == { <<"north">>, <<"north", Comma, "south">>, <<"north", LF, "south">> }

AlignDists ==
    { Null,
      Some([baseline |-> [EmptyUserDistribution EXCEPT !.min = Some(N(5))],
            treatment |-> EmptyUserDistribution]) }

AlignEntries(i) ==
    [id : AlignIds(i), scenario_group : AlignGroups, loc : AlignValues,
     userDist : AlignDists]

AlignLists ==
    UNION {{list \in [1 .. n -> UNION {AlignEntries(i) : i \in 1 .. n}] :
               \A i \in 1 .. n : list[i] \in AlignEntries(i)} : n \in 1 .. MaxAlign}

AlignSession(list) ==
    [scenarios |-> [i \in 1 .. Len(list) |->
                       [id |-> list[i].id, scenario_group |-> list[i].scenario_group,
                        comment |-> Null,
                        attrs |-> <<[key |-> <<"loc">>,
                                     value |-> JsString(list[i].loc)]>>]],
     userData |-> [id \in {list[i].id : i \in {k \in 1 .. Len(list) :
                                                  list[k].userDist # Null}} |->
                      (list[CHOOSE i \in 1 .. Len(list) : list[i].id = id]).userDist[1]]]

InitAlign ==
    /\ session \in {AlignSession(list) : list \in AlignLists}
    /\ table = None
    /\ csv = NotRun
    /\ parsed = NotRun
    /\ app = None
    /\ EditIdle
    /\ PureIdle

NextAlign == Export \/ Import

SpecAlign == InitAlign /\ [][NextAlign]_vars

\* C28: for every non-empty session, whatever characters its ids, groups and
\* attribute values contain, the text generateCSV returns has one line per scenario
\* after the header, and each of them splits on commas into exactly as many cells
\* as the header.
C28_RowsAlignWithHeader ==
    csv.status = "ok"
    => LET lines == SplitOn(csv.text, LF)
           header == SplitOn(lines[1], Comma)
       IN  /\ Len(lines) = Len(session.scenarios) + 1
           /\ \A i \in 2 .. Len(lines) :
                  Len(SplitOn(lines[i], Comma)) = Len(header)

-----------------------------------------------------------------------------
(* App: scenarios, selection, add and delete                               *)
(* The App state is a record of the useState values.  A handler runs on    *)
(* the state of the last render; the selection effect runs after every     *)
(* render in which one of its dependencies changed (effectPending), before *)
(* the next event is handled.  now is the clock Date.now() reads.          *)

\* scenarioGroups: Array.from(new Set(scenarios.map(s => s.scenario_group)))
scenarioGroups(state) ==
    LET groups == [i \in 1 .. Len(state.scenarios) |-> state.scenarios[i].scenario_group]
        firsts == SelectSeq([i \in 1 .. Len(groups) |-> i],
                      LAMBDA i : \A j \in 1 .. (i - 1) : groups[j] # groups[i])
    IN  [k \in 1 .. Len(firsts) |-> groups[firsts[k]]]

\* scenariosInGroup: the scenarios of the selected group, none without a group
scenariosInGroup(state) ==
    IF state.selectedGroup = Null THEN <<>>
    ELSE SelectSeq(state.scenarios,
             LAMBDA sc : sc.scenario_group = state.selectedGroup[1])

\* the selection effect that keeps a selected id of another group
selectionEffect_KeepCurrent(state) ==
    IF Len(scenariosInGroup(state)) > 0
    THEN IF state.selectedScenarioId = Null
         THEN [state EXCEPT !.selectedScenarioId = Some(scenariosInGroup(state)[1].id)]
         ELSE state
    ELSE [state EXCEPT !.selectedScenarioId = Null]

\* the body of the selection useEffect
selectionEffect(state) ==
    IF Len(scenariosInGroup(state)) > 0
    THEN LET currentScenarioIsInNewGroup ==
                 \E i \in 1 .. Len(scenariosInGroup(state)) :
                     Some(scenariosInGroup(state)[i].id) = state.selectedScenarioId
         IN  IF ~currentScenarioIsInNewGroup
             THEN [state EXCEPT !.selectedScenarioId =
                                    Some(scenariosInGroup(state)[1].id)]
             ELSE state
    ELSE [state EXCEPT !.selectedScenarioId = Null]

\* App.handleDistributionChange: the updater applied to the state
handleDistributionChangeApp(state, scenarioId, type, newDistribution) ==
    LET prev == state.userElicitationData
        existingScenario == IF scenarioId \in DOMAIN prev THEN prev[scenarioId]
                            ELSE getEmptyUserScenario
    IN  [state EXCEPT !.userElicitationData =
            (scenarioId :> AppHandleDistributionChange(existingScenario, type,
                                                       newDistribution))
            @@ prev]

handleSelectScenario(state, scenarioId) ==
    [state EXCEPT !.selectedScenarioId = Some(scenarioId)]

handleSelectGroup(state, group) == [state EXCEPT !.selectedGroup = Some(group)]

\* handleAddScenario: a copy of the template under the id scenario_<Date.now()>
handleAddScenario(state, templateScenario) ==
    [state EXCEPT !.scenarioToEdit =
                      Some([templateScenario EXCEPT
                               !.id = <<"scenario_">> \o NatToString(state.now)])]

handleDeleteScenario(state, scenarioId) ==
    [state EXCEPT !.scenarioToDelete = Some(scenarioId)]

\* the elicitation data of the deleted scenario left in place
confirmDeleteScenario_KeepRecord(state) ==
    IF state.scenarioToDelete # Null
    THEN LET id == state.scenarioToDelete[1]
             remainingScenarios ==
                 SelectSeq(state.scenarios,
                     LAMBDA sc : sc.id # id
                                 /\ Some(sc.scenario_group) = state.selectedGroup)
         IN  [state EXCEPT
                 !.scenarios = SelectSeq(state.scenarios, LAMBDA sc : sc.id # id),
                 !.selectedScenarioId =
                     IF state.selectedScenarioId = Some(id)
                     THEN IF Len(remainingScenarios) > 0
                          THEN Some(remainingScenarios[1].id) ELSE Null
                     ELSE state.selectedScenarioId,
                 !.scenarioToDelete = Null]
    ELSE state

\* confirmDeleteScenario
confirmDeleteScenario(state) ==
    IF state.scenarioToDelete # Null
    THEN LET id == state.scenarioToDelete[1]
             remainingScenarios ==
                 SelectSeq(state.scenarios,
                     LAMBDA sc : sc.id # id
                                 /\ Some(sc.scenario_group) = state.selectedGroup)
         IN  [state EXCEPT
                 !.scenarios = SelectSeq(state.scenarios, LAMBDA sc : sc.id # id),
                 !.userElicitationData =
                     [k \in DOMAIN state.userElicitationData \ {id} |->
                         state.userElicitationData[k]],
                 !.selectedScenarioId =
                     IF state.selectedScenarioId = Some(id)
                     THEN IF Len(remainingScenarios) > 0
                          THEN Some(remainingScenarios[1].id) ELSE Null
                     ELSE state.selectedScenarioId,
                 !.scenarioToDelete = Null]
    ELSE state

\* handleSaveNewScenario
handleSaveNewScenario(state, scenario) ==
    [state EXCEPT !.scenarios = Append(state.scenarios, scenario),
                  !.scenarioToEdit = Null,
                  !.selectedScenarioId = Some(scenario.id)]

\* the most scenarios added in a session
MaxAdds == 1

\* a data row of a session file: id, group and baseline_min given, the rest blank
AppRow(id, group, baselineMin) ==
    [scenario_id |-> id, scenario_group |-> group, comment |-> <<>>,
     loc |-> <<"north">>, baseline_min |-> baselineMin, baseline_max |-> <<>>,
     baseline_mode |-> <<>>, baseline_confidence |-> <<>>, treatment_min |-> <<>>,
     treatment_max |-> <<>>, treatment_mode |-> <<>>, treatment_confidence |-> <<>>]

\* session files: two scenarios in two groups; one scenario listed under two groups;
\* two scenarios in one group; a header without rows (not accepted)
AppFiles ==
    { [header |-> FullHeader,
       rows |-> <<AppRow(<<"s1">>, <<"A">>, <<>>), AppRow(<<"s2">>, <<"B">>, <<"0">>)>>],
      [header |-> FullHeader,
       rows |-> <<AppRow(<<"s1">>, <<"A">>, <<"0">>), AppRow(<<"s1">>, <<"B">>, <<"0">>)>>],
      [header |-> FullHeader,
       rows |-> <<AppRow(<<"s1">>, <<"A">>, <<>>), AppRow(<<"s2">>, <<"A">>, <<>>)>>],
      [header |-> FullHeader, rows |-> <<>>] }

\* buildDefaultData: the default file decoded, or an empty session when that fails
buildDefaultData(text) ==
    LET data == parseCSV(text, <<>>)
    IN  IF data.status = "error"
        THEN [scenarios |-> <<>>, userElicitationData |-> <<>>, yieldColumn |-> Null]
        ELSE [scenarios |-> data.scenarios,
              userElicitationData |-> data.userElicitationData,
              yieldColumn |-> data.yieldColumn]

\* the useState initial values of App
MountState(data) ==
    LET first == [scenarios |-> data.scenarios, selectedGroup |-> FirstGroup(data.scenarios)]
    IN  [scenarios |-> data.scenarios,
         userElicitationData |-> data.userElicitationData,
         yieldColumn |-> data.yieldColumn,
         scenarioToEdit |-> Null,
         scenarioToDelete |-> Null,
         selectedGroup |-> FirstGroup(data.scenarios),
         selectedScenarioId |-> IF Len(scenariosInGroup(first)) > 0
                                THEN Some(scenariosInGroup(first)[1].id) ELSE Null,
         effectPending |-> TRUE,
         now |-> 1]

InitApp ==
    /\ app \in {MountState(buildDefaultData(TableText(file))) : file \in AppFiles}
    /\ session = None
    /\ table = None
    /\ csv = None
    /\ parsed = None
    /\ EditIdle
    /\ PureIdle

\* a dependency of the selection effect differs between two renders
DepsChanged(old, new) ==
    \/ old.scenarios # new.scenarios
    \/ old.selectedGroup # new.selectedGroup
    \/ old.selectedScenarioId # new.selectedScenarioId

\* the state a handler left is rendered; the effect is due when a dependency changed
Rendered(new) ==
    /\ app' = [new EXCEPT !.effectPending = DepsChanged(app, new)]
    /\ UNCHANGED <<session, table, csv, parsed, editVars, pureVars>>

\* no effect is due and no modal is open
TableActive ==
    /\ ~app.effectPending
    /\ app.scenarioToEdit = Null
    /\ app.scenarioToDelete = Null

\* the selection useEffect runs; it runs again when it changed the selection
SelectionEffect ==
    /\ app.effectPending
    /\ Rendered(selectionEffect(app))

\* a group tab is clicked
SelectGroup ==
    \E k \in 1 .. Len(scenarioGroups(app)) :
        /\ TableActive
        /\ Rendered(handleSelectGroup(app, scenarioGroups(app)[k]))

\* a row of the table is clicked
SelectScenario ==
    \E k \in 1 .. Len(scenariosInGroup(app)) :
        /\ TableActive
        /\ Rendered(handleSelectScenario(app, scenariosInGroup(app)[k].id))

\* the duplicate button of a row is clicked: the edit modal opens
AddScenario ==
    \E k \in 1 .. Len(scenariosInGroup(app)) :
        /\ TableActive
        /\ app.now <= MaxAdds
        /\ Rendered([handleAddScenario(app, scenariosInGroup(app)[k])
                         EXCEPT !.now = app.now + 1])

\* the edit modal is saved, with any of the groups chosen
SaveNewScenario ==
    \E k \in 1 .. Len(scenarioGroups(app)) :
        /\ ~app.effectPending
        /\ app.scenarioToEdit # Null
        /\ Rendered(handleSaveNewScenario(app,
               [app.scenarioToEdit[1] EXCEPT !.scenario_group = scenarioGroups(app)[k]]))

\* the edit modal is cancelled
CancelNewScenario ==
    /\ ~app.effectPending
    /\ app.scenarioToEdit # Null
    /\ Rendered([app EXCEPT !.scenarioToEdit = Null])

\* the delete button of a row is clicked: the confirmation modal opens
DeleteScenario ==
    \E k \in 1 .. Len(scenariosInGroup(app)) :
        /\ TableActive
        /\ Rendered(handleDeleteScenario(app, scenariosInGroup(app)[k].id))

\* the deletion is confirmed
ConfirmDelete ==
    /\ ~app.effectPending
    /\ app.scenarioToDelete # Null
    /\ Rendered(confirmDeleteScenario(app))

\* the confirmation modal is cancelled
CancelDelete ==
    /\ ~app.effectPending
    /\ app.scenarioToDelete # Null
    /\ Rendered([app EXCEPT !.scenarioToDelete = Null])

\* a control of the selected row is edited (the controls of the other rows are
\* disabled): the distribution of one side is replaced
ChangeDistribution ==
    \E type \in Types :
        /\ TableActive
        /\ app.selectedScenarioId # Null
        /\ \E k \in 1 .. Len(scenariosInGroup(app)) :
               Some(scenariosInGroup(app)[k].id) = app.selectedScenarioId
        /\ Rendered(handleDistributionChangeApp(app, app.selectedScenarioId[1], type,
                        [EmptyUserDistribution EXCEPT !.max = Some(0)]))

\* a session file is uploaded
UploadFile ==
    /\ TableActive
    /\ \E file \in AppFiles :
           \E loaded \in {handleFileUpload(
                              [scenarios |-> app.scenarios,
                               userElicitationData |-> app.userElicitationData,
                               yieldColumn |-> app.yieldColumn,
                               selectedGroup |-> app.selectedGroup],
                              TableText(file))} :
               Rendered([app EXCEPT !.scenarios = loaded.scenarios,
                                    !.userElicitationData = loaded.userElicitationData,
                                    !.yieldColumn = loaded.yieldColumn,
                                    !.selectedGroup = loaded.selectedGroup])

NextApp ==
    \/ SelectionEffect
    \/ SelectGroup
    \/ SelectScenario
    \/ AddScenario
    \/ SaveNewScenario
    \/ CancelNewScenario
    \/ DeleteScenario
    \/ ConfirmDelete
    \/ CancelDelete
    \/ ChangeDistribution
    \/ UploadFile

SpecApp == InitApp /\ [][NextApp]_vars

\* the effect is run whenever it is due (React runs the effects of every render)
SpecAppFair == SpecApp /\ WF_vars(SelectionEffect)

-----------------------------------------------------------------------------
(* Properties of the App                                                   *)

HasScenario(id) == \E i \in 1 .. Len(app.scenarios) : app.scenarios[i].id = id

ScenarioIds == {app.scenarios[i].id : i \in 1 .. Len(app.scenarios)}

\* the id was made by handleAddScenario
IsAddedId(id) == id[1] = "scenario_"

SelectionSettled ==
    IF Len(scenariosInGroup(app)) = 0 THEN app.selectedScenarioId = Null
    ELSE /\ app.selectedScenarioId # Null
         /\ \E i \in 1 .. Len(scenariosInGroup(app)) :
                scenariosInGroup(app)[i].id = app.selectedScenarioId[1]

\* C29: after any sequence of group selection, scenario selection, add, confirmed
\* delete and import, whenever the selection effect has reached a fixed point the
\* selected scenario id is the id of a scenario in the selected group, or null
\* exactly when that group has no scenarios; and the effect always reaches a fixed
\* point.
C29_SelectionSettles ==
    /\ [](~app.effectPending => SelectionSettled)
    /\ (app.effectPending ~> ~app.effectPending)

\* an added scenario saved into the other group was selected by the save and the
\* effect has put the selection back into the selected group
C29_Witness ==
    /\ ~app.effectPending
    /\ app.scenarioToEdit = Null
    /\ app.selectedGroup = Some(<<"A">>)
    /\ \E i \in 1 .. Len(app.scenarios) :
           /\ IsAddedId(app.scenarios[i].id)
           /\ app.scenarios[i].scenario_group = <<"B">>
    /\ SelectionSettled

\* selectedGroup is null or the group of an existing scenario
GroupExists ==
    \/ app.selectedGroup = Null
    \/ \E i \in 1 .. Len(app.scenarios) :
           app.scenarios[i].scenario_group = app.selectedGroup[1]

\* C30 as claimed: in every App state reached by group selection, add, confirmed
\* delete and import, selectedGroup is null or the group of an existing scenario.
C30_SelectedGroupExistsAsClaimed == GroupExists

\* C30 amended: selectedGroup is null or the group of an existing scenario when the
\* App is mounted; every step that changes selectedGroup sets it to null or to the
\* group of an existing scenario; and the only step after which it stops being one
\* is a confirmed delete (of the last scenario of the selected group).
C30_SelectedGroupExists ==
    /\ GroupExists
    /\ [][/\ app'.selectedGroup # app.selectedGroup => GroupExists'
          /\ (GroupExists /\ ~GroupExists')
             => /\ app.scenarioToDelete # Null
                /\ app'.scenarioToDelete = Null
                /\ Len(app'.scenarios) < Len(app.scenarios)]_vars

\* the last scenario of the selected group was deleted while another group has
\* scenarios: selectedGroup names a group without scenarios
C30_Witness ==
    /\ ~app.effectPending
    /\ Len(app.scenarios) > 0
    /\ app.selectedGroup # Null
    /\ ~GroupExists
    /\ app.selectedScenarioId = Null

-----------------------------------------------------------------------------
(* Completion status of a scenario                                         *)

\* scenarioCompletionStatus
scenarioCompletionStatus(state) ==
    [id \in {state.scenarios[i].id : i \in 1 .. Len(state.scenarios)} |->
        IF id \in DOMAIN state.userElicitationData
        THEN hasScenarioUserEdits(state.userElicitationData[id])
        ELSE FALSE]

\* a sparse field: unset, set to 0, set to another number
CompletionFields == {Null, Some(0), Some(N(5))}

CompletionRecords ==
    [baseline : [Fields -> CompletionFields], treatment : [Fields -> CompletionFields]]

\* one scenario, without a distribution record or with any record
InitCompletion ==
    /\ app \in {[scenarios |-> <<[id |-> <<"s1">>, scenario_group |-> <<"A">>,
                                  comment |-> Null, attrs |-> <<>>]>>,
                  userElicitationData |-> data,
                  completionStatus |-> Pending] :
                    data \in {<<>>} \cup {(<<"s1">> :> u) : u \in CompletionRecords}}
    /\ session = None
    /\ table = None
    /\ csv = None
    /\ parsed = None
    /\ EditIdle
    /\ PureIdle

\* the completion status is computed for the render
ComputeCompletion ==
    /\ app.completionStatus = Pending
    /\ app' = [app EXCEPT !.completionStatus = <<scenarioCompletionStatus(app)>>]
    /\ UNCHANGED <<session, table, csv, parsed, editVars, pureVars>>

NextCompletion == ComputeCompletion

SpecCompletion == InitCompletion /\ [][NextCompletion]_vars

\* at least one of the eight sparse fields of the record is set
SomeFieldSet(u) == \E type \in Types, f \in Fields : u[type][f] # Null

\* C22: hasScenarioUserEdits is true if and only if at least one of the eight
\* sparse fields is set, a field set to 0 counting as set; and the App marks a
\* scenario complete exactly when it has a distribution record for which this
\* holds.
C22_CompletionCheck ==
    /\ \A id \in DOMAIN app.userElicitationData :
           hasScenarioUserEdits(app.userElicitationData[id])
               <=> SomeFieldSet(app.userElicitationData[id])
    /\ app.completionStatus # Pending
       => \A i \in 1 .. Len(app.scenarios) :
              LET id == app.scenarios[i].id
              IN  app.completionStatus[1][id]
                      <=> /\ id \in DOMAIN app.userElicitationData
                          /\ SomeFieldSet(app.userElicitationData[id])

\* a scenario whose only set field is treatment.min = 0 was marked complete
C22_Witness ==
    /\ app.completionStatus # Pending
    /\ <<"s1">> \in DOMAIN app.userElicitationData
    /\ app.userElicitationData[<<"s1">>]
           = [getEmptyUserScenario EXCEPT !.treatment.min = Some(0)]
    /\ app.completionStatus[1][<<"s1">>]

====
